---- MODULE Spec2Model ----
(***************************************************************************)
(* A model of the EPharmacy REST backend: the order, prescription, payment *)
(* and product services over the relational tables, the HTTP handlers that *)
(* call them, the authentication middleware, and the account service.      *)
(*                                                                         *)
(* Money is counted in the smallest unit of the decimal(10,2) columns.     *)
(* Ids are pairs <<table, n>>, so that ids of different tables are         *)
(* different values, as uuids are.  An absent field of a JavaScript object *)
(* is an absent field of the record.                                       *)
(***************************************************************************)
EXTENDS Integers, Sequences, FiniteSets, TLC

(***************************************************************************)
(* Bounds of the model.                                                    *)
(***************************************************************************)
MaxOrders == 1
MaxCart == 2
MaxStock == 2
MaxPrescriptions == 1

(***************************************************************************)
(* Enumerations of src/types.                                              *)
(***************************************************************************)
UserRole == [USER |-> "user", ADMIN |-> "admin", PHARMACY |-> "pharmacy"]

OrderStatus == [PENDING |-> "pending", APPROVED |-> "approved", SHIPPED |-> "shipped",
                DELIVERED |-> "delivered", CANCELLED |-> "cancelled"]

PrescriptionStatus == [PENDING |-> "pending", APPROVED |-> "approved", REJECTED |-> "rejected"]

ProductStatus == [ACTIVE |-> "active", INACTIVE |-> "inactive",
                  PENDING_APPROVAL |-> "pending_approval"]

(***************************************************************************)
(* Values.                                                                 *)
(***************************************************************************)
Undefined == <<"undefined", 0>>

UserIds == {<<"user", 1>>, <<"user", 2>>}

NoSuchUser == <<"user", 0>>

AdminId == <<"admin", 1>>

PharmacyIds == {<<"pharmacy", 1>>, <<"pharmacy", 2>>}

ProductIds == {<<"product", 1>>, <<"product", 2>>}

NoSuchProduct == <<"product", 0>>

PrescriptionIds == {<<"prescription", n>> : n \in 1..MaxPrescriptions}

OrderIds == {<<"order", n>> : n \in 1..MaxOrders}

VARIABLES users, registered, pharmacies, products, prescriptions, prescriptionCount, orders, undo,
          txns, deleted, req, resp

vars == <<users, registered, pharmacies, products, prescriptions, prescriptionCount, orders, undo,
          txns, deleted, req, resp>>

(***************************************************************************)
(* Tables.  users and pharmacies: the rows in the order they were saved.   *)
(* products: one row per product id (rows are never removed, a delete is a *)
(* status change).  prescriptions: a row or NoRow per id; ids              *)
(* are handed out in order and never reused.  orders: the rows in the      *)
(* order they were saved, each with its order items.                       *)
(* req and resp are the last call and its answer.  undo is a history       *)
(* variable: the order the last call created, the stock before that call,  *)
(* and whether the call after it has cancelled that order.  registered is  *)
(* a history variable too: the id, email and password of every successful  *)
(* registerUser whose password has not been changed since.                 *)
(* txns: the calls in progress when calls overlap, each with the place it  *)
(* has reached and the rows it has read; the tables hold what is committed.*)
(* deleted is a history variable too: the products whose pharmacy has      *)
(* deleted them.                                                           *)
(***************************************************************************)
Tx == {1, 2}

Idle == [op |-> "idle"]

NoTxns == [t \in Tx |-> Idle]

NoRow ==
  [status |-> "none", userId |-> Undefined, adminNotes |-> "", approvedBy |-> Undefined,
   approvedAt |-> 0]

NoRequest == [op |-> "none"]

NoResponse == [op |-> "none", status |-> 0]

NoUndo == [orderId |-> Undefined]

\* class-validator: @IsPositive() of price and totalAmount, @Min(0) of stockQuantity
IsPositive(n) == n > 0

Min0(n) == n >= 0

\* the rows written by the seed script: an over-the-counter product and a
\* prescription-only product of two verified pharmacies
SeedProducts ==
  (<<"product", 1>> :> [stockQuantity |-> MaxStock, price |-> 2, requiresPrescription |-> FALSE,
                         status |-> ProductStatus.ACTIVE, pharmacyId |-> <<"pharmacy", 1>>])
  @@
  (<<"product", 2>> :> [stockQuantity |-> MaxStock, price |-> 3, requiresPrescription |-> TRUE,
                         status |-> ProductStatus.ACTIVE, pharmacyId |-> <<"pharmacy", 2>>])

\* bcrypt.hash(password, 12): the text is not recoverable from the value and
\* is never equal to it
hashPassword(password) == <<"bcrypt", password>>

EmailOf(userId) == <<"email", userId[2]>>

\* the two sample users of the seed script, both with password user123
SeedUsers ==
  <<[id |-> <<"user", 1>>, firstName |-> "John", lastName |-> "Doe",
     email |-> EmailOf(<<"user", 1>>), password |-> hashPassword("user123"),
     isActive |-> TRUE, isEmailVerified |-> FALSE],
    [id |-> <<"user", 2>>, firstName |-> "Jane", lastName |-> "Smith",
     email |-> EmailOf(<<"user", 2>>), password |-> hashPassword("user123"),
     isActive |-> TRUE, isEmailVerified |-> FALSE]>>

\* the two sample pharmacies of the seed script, both verified
SeedPharmacies ==
  <<[id |-> <<"pharmacy", 1>>, name |-> "City Pharmacy", email |-> <<"email", 11>>,
     password |-> hashPassword("pharmacy123"), licenseNumber |-> "PH001",
     isVerified |-> TRUE, isActive |-> TRUE],
    [id |-> <<"pharmacy", 2>>, name |-> "MediCare Plus", email |-> <<"email", 12>>,
     password |-> hashPassword("pharmacy123"), licenseNumber |-> "PH002",
     isVerified |-> TRUE, isActive |-> TRUE]>>

Init ==
  /\ users = SeedUsers
  /\ registered = {}
  /\ pharmacies = SeedPharmacies
  /\ txns = NoTxns
  /\ deleted = {}
  /\ products = SeedProducts
  /\ prescriptions = [id \in PrescriptionIds |-> NoRow]
  /\ prescriptionCount = 0
  /\ orders = <<>>
  /\ undo = NoUndo
  /\ req = NoRequest
  /\ resp = NoResponse

(***************************************************************************)
(* Repository look-ups (findOne with a where clause).                      *)
(***************************************************************************)
\* findOne(User, { where: { id } }): the index of the row, or 0
FindUser(id) ==
  IF \E k \in 1..Len(users) : users[k].id = id
  THEN CHOOSE k \in 1..Len(users) : users[k].id = id
  ELSE 0

UserExists(userId) == FindUser(userId) # 0

\* findOne(Order, { where: { id, userId } }): the index of the row, or 0
FindOrderMutant(id, userId) ==
  IF \E k \in 1..Len(orders) : orders[k].id = id
  THEN CHOOSE k \in 1..Len(orders) : orders[k].id = id
  ELSE 0

FindOrder(id, userId) ==
  IF \E k \in 1..Len(orders) : orders[k].id = id /\ orders[k].userId = userId
  THEN CHOOSE k \in 1..Len(orders) : orders[k].id = id /\ orders[k].userId = userId
  ELSE 0

\* findOne(Prescription, { where: { id, userId } })
FindPrescription(id, userId) ==
  /\ id \in PrescriptionIds
  /\ prescriptions[id].status # "none"
  /\ prescriptions[id].userId = userId

\* a look-up that accepts an approved prescription of any user
FindApprovedPrescriptionMutant(id, userId) ==
  /\ id \in PrescriptionIds
  /\ prescriptions[id].status = PrescriptionStatus.APPROVED

\* findOne(Prescription, { where: { id, userId, status: APPROVED } })
FindApprovedPrescription(id, userId) ==
  /\ id \in PrescriptionIds
  /\ prescriptions[id].userId = userId
  /\ prescriptions[id].status = PrescriptionStatus.APPROVED

StockOf(tbl) == [p \in DOMAIN tbl |-> tbl[p].stockQuantity]

WithStock(tbl, stk) == [p \in DOMAIN tbl |-> [tbl[p] EXCEPT !.stockQuantity = stk[p]]]

(***************************************************************************)
(* OrderService.createOrder.                                               *)
(***************************************************************************)
\* new AppError(message, statusCode), named by the start of the message
AppError(message, statusCode) == [status |-> statusCode, message |-> message]

NoError == [status |-> 0, message |-> ""]

\* a total that forgets the quantity
ItemTotalMutant(price, quantity) == price

\* const itemTotal = product.price * item.quantity
ItemTotal(price, quantity) == price * quantity

\* the loop over the cart inside the transaction: stk is the stock as the
\* transaction sees it (every product is read again after the saves before
\* it); the result carries the rows saved so far and the error thrown
RECURSIVE ValidateItems(_, _, _, _, _, _)
ValidateItems(items, i, stk, totalAmount, requiresPrescription, orderItems) ==
  LET Result(error) == [error |-> error, stock |-> stk, totalAmount |-> totalAmount,
                        requiresPrescription |-> requiresPrescription,
                        orderItems |-> orderItems]
  IN
  IF i > Len(items) THEN Result(NoError)
  ELSE LET item == items[i] IN
    IF item.productId \notin DOMAIN products
    THEN Result(AppError("Product not found", 404))
    ELSE LET product == products[item.productId] IN
      IF stk[item.productId] < item.quantity
      THEN Result(AppError("Insufficient stock for product", 400))
      ELSE LET itemTotal == ItemTotal(product.price, item.quantity) IN
        ValidateItems(items, i + 1,
                      [stk EXCEPT ![item.productId] = @ - item.quantity],
                      totalAmount + itemTotal,
                      requiresPrescription \/ product.requiresPrescription,
                      Append(orderItems, [productId |-> item.productId,
                                          quantity |-> item.quantity,
                                          unitPrice |-> product.price,
                                          totalPrice |-> itemTotal]))

\* the statements of the transaction after the loop: the prescription check
\* and validate(order), whose only constraint that can fail is @IsPositive
\* of totalAmount
CheckOrder(userId, orderData, v) ==
  IF v.error.status # 0 THEN v.error
  ELSE IF v.requiresPrescription /\ orderData.prescriptionId = Undefined
  THEN AppError("Prescription is required for this order", 400)
  ELSE IF v.requiresPrescription /\ ~FindApprovedPrescription(orderData.prescriptionId, userId)
  THEN AppError("Valid approved prescription is required", 400)
  ELSE IF ~IsPositive(v.totalAmount)
  THEN AppError("Order validation failed", 400)
  ELSE NoError

\* a transaction that keeps what was saved before the throw
RollbackMutant(before, saved) == saved

\* AppDataSource.transaction: what the table holds once the callback has
\* thrown (before: the rows at the start, saved: the rows it has saved)
Rollback(before, saved) == before

NewOrder(userId, orderData, v) ==
  [id |-> <<"order", Len(orders) + 1>>,
   userId |-> userId,
   totalAmount |-> v.totalAmount,
   status |-> OrderStatus.PENDING,
   prescriptionId |-> orderData.prescriptionId,
   orderItems |-> v.orderItems]

createOrder(userId, orderData) ==
  /\ UNCHANGED <<users, registered, pharmacies, txns, deleted>>
  /\ req' = [op |-> "createOrder", userId |-> userId, items |-> orderData.items,
             prescriptionId |-> orderData.prescriptionId]
  /\ UNCHANGED <<prescriptions, prescriptionCount>>
  /\ IF Len(orderData.items) = 0
     THEN /\ resp' = [op |-> "createOrder", status |-> 400,
                      message |-> "Order items are required"]
          /\ undo' = NoUndo
          /\ UNCHANGED <<products, orders>>
     ELSE IF ~orderData.shippingAddress
     THEN /\ resp' = [op |-> "createOrder", status |-> 400,
                      message |-> "Shipping address is required"]
          /\ undo' = NoUndo
          /\ UNCHANGED <<products, orders>>
     ELSE IF ~UserExists(userId)
     THEN /\ resp' = [op |-> "createOrder", status |-> 404, message |-> "User not found"]
          /\ undo' = NoUndo
          /\ UNCHANGED <<products, orders>>
     ELSE LET v == ValidateItems(orderData.items, 1, StockOf(products), 0, FALSE, <<>>)
              error == CheckOrder(userId, orderData, v)
          IN IF error.status # 0
             THEN /\ resp' = [op |-> "createOrder", status |-> error.status,
                              message |-> error.message]
                  /\ products' = Rollback(products, WithStock(products, v.stock))
                  /\ undo' = NoUndo
                  /\ UNCHANGED orders
             ELSE /\ Len(orders) < MaxOrders
                  /\ resp' = [op |-> "createOrder", status |-> 201,
                              message |-> "Order created successfully"]
                  /\ products' = WithStock(products, v.stock)
                  /\ orders' = Append(orders, NewOrder(userId, orderData, v))
                  /\ undo' = [orderId |-> <<"order", Len(orders) + 1>>,
                              stock |-> StockOf(products), cancelled |-> FALSE]

(***************************************************************************)
(* OrderService.cancelOrder.                                               *)
(***************************************************************************)
\* a cancellation that leaves the stock alone
RestoreStockMutant(orderItems, i, stk) == stk

RECURSIVE RestoreStock(_, _, _)
RestoreStock(orderItems, i, stk) ==
  IF i > Len(orderItems) THEN stk
  ELSE LET item == orderItems[i] IN
       RestoreStock(orderItems, i + 1,
                    IF item.productId \in DOMAIN stk
                    THEN [stk EXCEPT ![item.productId] = @ + item.quantity]
                    ELSE stk)

\* the service call: the status it answers with and the tables it leaves
CancelOrderResult(userId, orderId) ==
  LET k == FindOrder(orderId, userId) IN
  IF k = 0
  THEN [status |-> 404, message |-> "Order not found",
        products |-> products, orders |-> orders]
  ELSE IF orders[k].status # OrderStatus.PENDING
  THEN [status |-> 400, message |-> "Only pending orders can be cancelled",
        products |-> products, orders |-> orders]
  ELSE [status |-> 200, message |-> "Order cancelled successfully",
        products |-> WithStock(products,
                               RestoreStock(orders[k].orderItems, 1, StockOf(products))),
        orders |-> [orders EXCEPT ![k].status = OrderStatus.CANCELLED]]

cancelOrder(userId, orderId) ==
  LET r == CancelOrderResult(userId, orderId) IN
  /\ UNCHANGED <<users, registered, pharmacies, txns, deleted>>
  /\ req' = [op |-> "cancelOrder", userId |-> userId, orderId |-> orderId]
  /\ resp' = [op |-> "cancelOrder", status |-> r.status, message |-> r.message]
  /\ products' = r.products
  /\ orders' = r.orders
  /\ undo' = IF r.status = 200 /\ undo.orderId = orderId /\ ~undo.cancelled
             THEN [undo EXCEPT !.cancelled = TRUE]
             ELSE NoUndo
  /\ UNCHANGED <<prescriptions, prescriptionCount>>

\* getOrderById and trackOrder: the same look-up, no write
GetOrderResult(userId, orderId) ==
  LET k == FindOrder(orderId, userId) IN
  IF k = 0 THEN [status |-> 404, message |-> "Order not found"]
  ELSE [status |-> 200, message |-> "Order retrieved successfully", data |-> orders[k]]

\* the reads of the services: OrderService.getOrderById and trackOrder answer
\* the order, PaymentService.getPaymentStatus what its status says of payment
getOrder(op, userId, orderId) ==
  LET r == GetOrderResult(userId, orderId)
      paymentStatus ==
        CASE r.data.status = OrderStatus.PENDING -> "not_paid"
          [] r.data.status \in {OrderStatus.APPROVED, OrderStatus.SHIPPED,
                                OrderStatus.DELIVERED} -> "completed"
          [] r.data.status = OrderStatus.CANCELLED -> "cancelled"
          [] OTHER -> "unknown"
  IN
  /\ UNCHANGED <<users, registered, pharmacies, txns, deleted>>
  /\ req' = [op |-> op, userId |-> userId, orderId |-> orderId]
  /\ undo' = NoUndo
  /\ UNCHANGED <<products, orders, prescriptions, prescriptionCount>>
  /\ resp' = IF r.status # 200
             THEN [op |-> op, status |-> r.status, message |-> r.message]
             ELSE IF op = "getPaymentStatus"
             THEN [op |-> op, status |-> 200,
                   data |-> [orderId |-> r.data.id, paymentStatus |-> paymentStatus,
                             amount |-> r.data.totalAmount, orderStatus |-> r.data.status]]
             ELSE [op |-> op, status |-> 200, data |-> r.data]

(***************************************************************************)
(* ProductService.updateProduct.  updateData holds the fields the caller   *)
(* supplied.  The text fields (name, description, category, imageUrl) are  *)
(* not kept in the rows; a text field is used `if (name)`, that is when it *)
(* is supplied and not the empty string.                                   *)
(***************************************************************************)
Has(data, fld) == fld \in DOMAIN data

UpdatedProductMutant(product, updateData) ==
  [product EXCEPT !.status = ProductStatus.PENDING_APPROVAL]

UpdatedProduct(product, updateData) ==
  LET p1 == IF Has(updateData, "price")
            THEN [product EXCEPT !.price = updateData.price] ELSE product
      p2 == IF Has(updateData, "stockQuantity")
            THEN [p1 EXCEPT !.stockQuantity = updateData.stockQuantity] ELSE p1
      p3 == IF Has(updateData, "requiresPrescription")
            THEN [p2 EXCEPT !.requiresPrescription = updateData.requiresPrescription] ELSE p2
  IN IF \/ (Has(updateData, "name") /\ updateData.name # "")
        \/ (Has(updateData, "description") /\ updateData.description # "")
        \/ Has(updateData, "requiresPrescription")
     THEN [p3 EXCEPT !.status = ProductStatus.PENDING_APPROVAL]
     ELSE p3

\* validate(product): the constraints of the entity that can fail
ValidProduct(product) == IsPositive(product.price) /\ Min0(product.stockQuantity)

updateProduct(pharmacyId, productId, updateData) ==
  /\ UNCHANGED <<users, registered, pharmacies, txns, deleted>>
  /\ req' = [op |-> "updateProduct", pharmacyId |-> pharmacyId, productId |-> productId]
  /\ undo' = NoUndo
  /\ UNCHANGED <<prescriptions, prescriptionCount, orders>>
  /\ IF ~(productId \in DOMAIN products /\ products[productId].pharmacyId = pharmacyId)
     THEN /\ resp' = [op |-> "updateProduct", status |-> 404, message |-> "Product not found"]
          /\ UNCHANGED products
     ELSE LET product == UpdatedProduct(products[productId], updateData) IN
          IF ~ValidProduct(product)
          THEN /\ resp' = [op |-> "updateProduct", status |-> 400,
                           message |-> "Validation failed"]
               /\ UNCHANGED products
          ELSE /\ resp' = [op |-> "updateProduct", status |-> 200,
                           message |-> "Product updated successfully"]
               /\ products' = [products EXCEPT ![productId] = product]

(***************************************************************************)
(* ProductService.createProduct, deleteProduct and getProducts,            *)
(* AdminService.approveProduct and rejectProduct.                          *)
(***************************************************************************)
MaxProducts == 3

\* findOne(Pharmacy, { where: { id: pharmacyId, isVerified: true, isActive: true } })
VerifiedPharmacy(pharmacyId) ==
  \E k \in 1..Len(pharmacies) :
    pharmacies[k].id = pharmacyId /\ pharmacies[k].isVerified /\ pharmacies[k].isActive

createProduct(pharmacyId, productData) ==
  LET id == <<"product", Cardinality(DOMAIN products) + 1>>
      product == [stockQuantity |-> productData.stockQuantity, price |-> productData.price,
                  requiresPrescription |-> productData.requiresPrescription,
                  status |-> ProductStatus.PENDING_APPROVAL, pharmacyId |-> pharmacyId]
  IN
  /\ UNCHANGED <<users, registered, pharmacies, txns, deleted>>
  /\ req' = [op |-> "createProduct", pharmacyId |-> pharmacyId, productId |-> id]
  /\ undo' = NoUndo
  /\ UNCHANGED <<prescriptions, prescriptionCount, orders>>
  /\ IF ~VerifiedPharmacy(pharmacyId)
     THEN /\ resp' = [op |-> "createProduct", status |-> 404,
                      message |-> "Verified pharmacy not found"]
          /\ UNCHANGED products
     ELSE IF \/ productData.name = "" \/ productData.description = ""
             \/ ~Has(productData, "price") \/ ~Has(productData, "stockQuantity")
             \/ productData.category = ""
     THEN /\ resp' = [op |-> "createProduct", status |-> 400,
                      message |-> "All required fields must be provided"]
          /\ UNCHANGED products
     ELSE IF ~ValidProduct(product)
     THEN /\ resp' = [op |-> "createProduct", status |-> 400, message |-> "Validation failed"]
          /\ UNCHANGED products
     ELSE /\ Cardinality(DOMAIN products) < MaxProducts
          /\ products' = products @@ (id :> product)
          /\ resp' = [op |-> "createProduct", status |-> 201,
                      message |-> "Product created successfully"]

deleteProduct(pharmacyId, productId) ==
  /\ UNCHANGED <<users, registered, pharmacies, txns>>
  /\ req' = [op |-> "deleteProduct", pharmacyId |-> pharmacyId, productId |-> productId]
  /\ undo' = NoUndo
  /\ UNCHANGED <<prescriptions, prescriptionCount, orders>>
  /\ IF ~(productId \in DOMAIN products /\ products[productId].pharmacyId = pharmacyId)
     THEN /\ resp' = [op |-> "deleteProduct", status |-> 404, message |-> "Product not found"]
          /\ UNCHANGED <<products, deleted>>
     ELSE /\ products' = [products EXCEPT ![productId].status = ProductStatus.INACTIVE]
          /\ deleted' = deleted \cup {productId}
          /\ resp' = [op |-> "deleteProduct", status |-> 200,
                      message |-> "Product deleted successfully"]

ListedMutant(product) == product.status # ProductStatus.INACTIVE

\* where('product.status = :status', { status: ProductStatus.ACTIVE })
Listed(product) == product.status = ProductStatus.ACTIVE

\* the public listing without filters: the ids of the products returned
getProducts ==
  /\ UNCHANGED <<users, registered, pharmacies, txns, deleted>>
  /\ req' = [op |-> "getProducts"]
  /\ undo' = NoUndo
  /\ UNCHANGED <<products, prescriptions, prescriptionCount, orders>>
  /\ resp' = [op |-> "getProducts", status |-> 200,
              products |-> {id \in DOMAIN products : Listed(products[id])}]

\* product.status !== ProductStatus.PENDING_APPROVAL
PendingApproval(product) == product.status = ProductStatus.PENDING_APPROVAL

\* approveProduct (status ACTIVE) and rejectProduct (status INACTIVE)
Decide(op, productId, status) ==
  /\ UNCHANGED <<users, registered, pharmacies, txns, deleted>>
  /\ req' = [op |-> op, productId |-> productId]
  /\ undo' = NoUndo
  /\ UNCHANGED <<prescriptions, prescriptionCount, orders>>
  /\ IF productId \notin DOMAIN products
     THEN /\ resp' = [op |-> op, status |-> 404, message |-> "Product not found"]
          /\ UNCHANGED products
     ELSE IF ~PendingApproval(products[productId])
     THEN /\ resp' = [op |-> op, status |-> 400, message |-> "Product is not pending approval"]
          /\ UNCHANGED products
     ELSE /\ products' = [products EXCEPT ![productId].status = status]
          /\ resp' = [op |-> op, status |-> 200, message |-> ""]

approveProduct(productId) == Decide("approveProduct", productId, ProductStatus.ACTIVE)

rejectProduct(productId) == Decide("rejectProduct", productId, ProductStatus.INACTIVE)

(***************************************************************************)
(* PrescriptionService.uploadPrescription and deletePrescription,          *)
(* AdminService.reviewPrescription.                                        *)
(***************************************************************************)
uploadPrescription(userId, fileOk) ==
  /\ UNCHANGED <<users, registered, pharmacies, txns, deleted>>
  /\ req' = [op |-> "uploadPrescription", userId |-> userId]
  /\ undo' = NoUndo
  /\ UNCHANGED <<products, orders>>
  /\ IF ~UserExists(userId)
     THEN /\ resp' = [op |-> "uploadPrescription", status |-> 404,
                      message |-> "User not found"]
          /\ UNCHANGED <<prescriptions, prescriptionCount>>
     ELSE IF ~fileOk
     THEN /\ resp' = [op |-> "uploadPrescription", status |-> 400,
                      message |-> "All file data is required"]
          /\ UNCHANGED <<prescriptions, prescriptionCount>>
     ELSE /\ prescriptionCount < MaxPrescriptions
          /\ prescriptionCount' = prescriptionCount + 1
          /\ prescriptions' =
               [prescriptions EXCEPT ![<<"prescription", prescriptionCount + 1>>] =
                  [status |-> PrescriptionStatus.PENDING, userId |-> userId,
                   adminNotes |-> "", approvedBy |-> Undefined, approvedAt |-> 0]]
          /\ resp' = [op |-> "uploadPrescription", status |-> 201,
                      message |-> "Prescription uploaded successfully"]

ReviewableMutant(prescription) == TRUE

\* prescription.status !== PrescriptionStatus.PENDING
Reviewable(prescription) == prescription.status = PrescriptionStatus.PENDING

\* adminNotes "" and adminId Undefined are the arguments left out; now is the
\* time of the call (new Date())
reviewPrescription(prescriptionId, status, adminNotes, adminId, now) ==
  /\ UNCHANGED <<users, registered, pharmacies, txns, deleted>>
  /\ req' = [op |-> "reviewPrescription", prescriptionId |-> prescriptionId,
             status |-> status]
  /\ undo' = NoUndo
  /\ UNCHANGED <<products, orders, prescriptionCount>>
  /\ IF status \notin {PrescriptionStatus.APPROVED, PrescriptionStatus.REJECTED}
     THEN /\ resp' = [op |-> "reviewPrescription", status |-> 400,
                      message |-> "Valid status (approved/rejected) is required"]
          /\ UNCHANGED prescriptions
     ELSE IF ~(prescriptionId \in PrescriptionIds /\ prescriptions[prescriptionId].status # "none")
     THEN /\ resp' = [op |-> "reviewPrescription", status |-> 404,
                      message |-> "Prescription not found"]
          /\ UNCHANGED prescriptions
     ELSE IF ~Reviewable(prescriptions[prescriptionId])
     THEN /\ resp' = [op |-> "reviewPrescription", status |-> 400,
                      message |-> "Prescription has already been reviewed"]
          /\ UNCHANGED prescriptions
     ELSE /\ prescriptions' =
               [prescriptions EXCEPT
                  ![prescriptionId].status = status,
                  ![prescriptionId].adminNotes = IF adminNotes # "" THEN adminNotes ELSE @,
                  ![prescriptionId].approvedBy = IF adminId # Undefined THEN adminId ELSE @,
                  ![prescriptionId].approvedAt = now]
          /\ resp' = [op |-> "reviewPrescription", status |-> 200,
                      message |-> "Prescription reviewed successfully"]

DeletePrescriptionResultMutant(userId, prescriptionId) ==
  IF ~FindPrescription(prescriptionId, userId)
  THEN [status |-> 404, message |-> "Prescription not found",
        prescriptions |-> prescriptions]
  ELSE IF prescriptions[prescriptionId].status = PrescriptionStatus.APPROVED
  THEN [status |-> 400, message |-> "Only pending prescriptions can be deleted",
        prescriptions |-> prescriptions]
  ELSE [status |-> 200, message |-> "Prescription deleted successfully",
        prescriptions |-> [prescriptions EXCEPT ![prescriptionId] = NoRow]]

\* the service call: the status it answers with and the table it leaves
DeletePrescriptionResult(userId, prescriptionId) ==
  IF ~FindPrescription(prescriptionId, userId)
  THEN [status |-> 404, message |-> "Prescription not found",
        prescriptions |-> prescriptions]
  ELSE IF prescriptions[prescriptionId].status # PrescriptionStatus.PENDING
  THEN [status |-> 400, message |-> "Only pending prescriptions can be deleted",
        prescriptions |-> prescriptions]
  ELSE [status |-> 200, message |-> "Prescription deleted successfully",
        prescriptions |-> [prescriptions EXCEPT ![prescriptionId] = NoRow]]

deletePrescription(userId, prescriptionId) ==
  LET r == DeletePrescriptionResult(userId, prescriptionId) IN
  /\ UNCHANGED <<users, registered, pharmacies, txns, deleted>>
  /\ req' = [op |-> "deletePrescription", userId |-> userId,
             prescriptionId |-> prescriptionId]
  /\ resp' = [op |-> "deletePrescription", status |-> r.status, message |-> r.message]
  /\ prescriptions' = r.prescriptions
  /\ undo' = NoUndo
  /\ UNCHANGED <<products, orders, prescriptionCount>>

(***************************************************************************)
(* PaymentService.processPayment and processRefund.  paymentDetails is     *)
(* "none" (absent), "incomplete" (a field of the method missing), "short"  *)
(* (complete, with a card number under 13 digits) or "complete"; approved  *)
(* is the draw of the simulated gateway.                                   *)
(***************************************************************************)
PaymentMethods == {"card", "bank_transfer", "mobile_money"}

validatePaymentMethodMutant(paymentMethod, paymentDetails) ==
  paymentDetails # "none" /\ paymentMethod \in PaymentMethods

validatePaymentMethod(paymentMethod, paymentDetails) ==
  /\ paymentDetails # "none"
  /\ paymentMethod \in PaymentMethods
  /\ paymentDetails # "incomplete"

\* processCardPayment, processBankTransfer, processMobileMoneyPayment:
\* "failed" stands for the Error they throw, which processPayment catches
GatewayResult(paymentMethod, paymentDetails, approved) ==
  IF paymentMethod = "card"
  THEN IF paymentDetails = "short" \/ ~approved THEN "failed" ELSE "completed"
  ELSE IF paymentMethod = "bank_transfer" THEN "pending"
  ELSE IF approved THEN "completed" ELSE "failed"

\* the service call: the status it answers with (the message of a 200 is the
\* payment status) and the orders it leaves
ProcessPaymentResult(userId, orderId, amount, paymentMethod, paymentDetails, approved) ==
  LET k == FindOrder(orderId, userId) IN
  IF k = 0
  THEN [status |-> 404, message |-> "Order not found", orders |-> orders]
  ELSE IF orders[k].status # OrderStatus.PENDING
  THEN [status |-> 400, message |-> "Order is not in a payable state", orders |-> orders]
  ELSE IF amount # orders[k].totalAmount
  THEN [status |-> 400, message |-> "Payment amount does not match order total",
        orders |-> orders]
  ELSE IF ~validatePaymentMethod(paymentMethod, paymentDetails)
  THEN [status |-> 400, message |-> "Invalid payment method or missing payment details",
        orders |-> orders]
  ELSE LET result == GatewayResult(paymentMethod, paymentDetails, approved) IN
       [status |-> 200, message |-> result,
        orders |-> IF result = "completed"
                   THEN [orders EXCEPT ![k].status = OrderStatus.APPROVED]
                   ELSE IF result = "pending"
                   THEN [orders EXCEPT ![k].status = OrderStatus.PENDING]
                   ELSE orders]

processPayment(userId, orderId, amount, paymentMethod, paymentDetails, approved) ==
  LET r == ProcessPaymentResult(userId, orderId, amount, paymentMethod, paymentDetails,
                                approved)
  IN
  /\ UNCHANGED <<users, registered, pharmacies, txns, deleted>>
  /\ req' = [op |-> "processPayment", userId |-> userId, orderId |-> orderId]
  /\ undo' = NoUndo
  /\ UNCHANGED <<products, prescriptions, prescriptionCount>>
  /\ resp' = [op |-> "processPayment", status |-> r.status, message |-> r.message]
  /\ orders' = r.orders

processRefund(userId, orderId, amount) ==
  LET k == FindOrder(orderId, userId)
      eligibleStatuses == {OrderStatus.APPROVED, OrderStatus.SHIPPED, OrderStatus.DELIVERED}
  IN
  /\ UNCHANGED <<users, registered, pharmacies, txns, deleted>>
  /\ req' = [op |-> "processRefund", userId |-> userId, orderId |-> orderId]
  /\ undo' = NoUndo
  /\ UNCHANGED <<products, prescriptions, prescriptionCount>>
  /\ IF k = 0
     THEN /\ resp' = [op |-> "processRefund", status |-> 404, message |-> "Order not found"]
          /\ UNCHANGED orders
     ELSE IF orders[k].status \notin eligibleStatuses
     THEN /\ resp' = [op |-> "processRefund", status |-> 400,
                      message |-> "Order is not eligible for refund"]
          /\ UNCHANGED orders
     ELSE LET refundAmount == IF amount # 0 THEN amount ELSE orders[k].totalAmount IN
          IF refundAmount > orders[k].totalAmount
          THEN /\ resp' = [op |-> "processRefund", status |-> 400,
                           message |-> "Refund amount cannot exceed order total"]
               /\ UNCHANGED orders
          ELSE /\ resp' = [op |-> "processRefund", status |-> 200,
                           message |-> "Refund processed successfully"]
               /\ orders' = [orders EXCEPT ![k].status = OrderStatus.CANCELLED]

(***************************************************************************)
(* AuthUtils and the middleware.  A token is the claims it was signed over  *)
(* (the payload, where a field whose value is undefined is not serialised, *)
(* with the issuer and the audience), the secret it was signed with and    *)
(* whether its 7 days have passed.                                         *)
(* An Authorization header is its first 7 characters (fewer when it is     *)
(* shorter) and the rest, Empty when nothing follows them.                 *)
(***************************************************************************)
JwtSecret == "jwt-secret"

Null == [null |-> TRUE]

\* an Error thrown with this message
Thrown(message) == [error |-> message]

\* "" is an unset JWT_SECRET
generateToken(payload, secret) ==
  IF secret = "" THEN Thrown("JWT_SECRET is not defined")
  ELSE [payload |-> payload @@ [iss |-> "epharmacy-backend", aud |-> "epharmacy-users"],
        signedWith |-> secret, expired |-> FALSE]

verifyTokenMutant(token, secret) ==
  IF secret = "" THEN Thrown("JWT_SECRET is not defined") ELSE token.payload

\* jwt.verify(token, secret): the claims of the token, or what is thrown
verifyToken(token, secret) ==
  IF secret = "" THEN Thrown("JWT_SECRET is not defined")
  ELSE IF token.signedWith # secret \/ token.expired THEN Thrown("Invalid token")
  ELSE token.payload

\* { userId: payload.userId, email: payload.email, role: payload.role }
Picked(payload) ==
  [fld \in {"userId", "email", "role"} \cap DOMAIN payload |-> payload[fld]]

\* the string ''
Empty == [empty |-> TRUE]

\* the header ''
EmptyHeader == [prefix |-> "", rest |-> Empty]

extractTokenFromHeaderMutant(authHeader) ==
  IF authHeader = Null THEN Null ELSE authHeader.rest

\* Null is an undefined header on the way in and null on the way out
extractTokenFromHeader(authHeader) ==
  IF authHeader = Null \/ authHeader = EmptyHeader THEN Null
  ELSE IF authHeader.prefix # "Bearer " THEN Null
  ELSE authHeader.rest

\* authenticate: the response it sends, or status 0 and req.user when it calls next()
authenticate(authorization) ==
  LET token == extractTokenFromHeader(authorization) IN
  IF token = Null \/ token = Empty
  THEN [status |-> 401, message |-> "Access token is required"]
  ELSE LET payload == verifyToken(token, JwtSecret) IN
       IF Has(payload, "error")
       THEN [status |-> 401, message |-> "Invalid or expired token"]
       ELSE [status |-> 0, user |-> Picked(payload)]

\* a middleware that admits every authenticated caller
authorizeMutant(roles, passed) == passed

\* authorize(...roles), run after authenticate has passed the request on
authorize(roles, passed) ==
  IF passed.status # 0 THEN passed
  ELSE IF ~Has(passed.user, "role") \/ passed.user.role \notin roles
  THEN [status |-> 403, message |-> "Insufficient permissions"]
  ELSE passed

(***************************************************************************)
(* The handlers of the orders and prescriptions routers that take an id.   *)
(* Both routers use authenticate and authorize(UserRole.USER).             *)
(***************************************************************************)
\* what the request log keeps of the caller
Caller(m) == IF m.status = 0 THEN m.user.userId ELSE Undefined

HttpCancelOrder(authorization, id) ==
  LET m == authorize({UserRole.USER}, authenticate(authorization)) IN
  /\ UNCHANGED <<users, registered, pharmacies, txns, deleted>>
  /\ req' = [op |-> "POST /orders/:id/cancel", caller |-> Caller(m), id |-> id]
  /\ undo' = NoUndo
  /\ UNCHANGED <<prescriptions, prescriptionCount>>
  /\ IF m.status # 0
     THEN /\ resp' = [op |-> "POST /orders/:id/cancel", status |-> m.status,
                      message |-> m.message]
          /\ UNCHANGED <<products, orders>>
     ELSE LET r == CancelOrderResult(id, m.user.userId) IN
          /\ resp' = [op |-> "POST /orders/:id/cancel", status |-> r.status,
                      message |-> r.message]
          /\ products' = r.products
          /\ orders' = r.orders

\* GET /orders/:id and GET /orders/:id/track
HttpGetOrder(route, authorization, id) ==
  LET m == authorize({UserRole.USER}, authenticate(authorization)) IN
  /\ UNCHANGED <<users, registered, pharmacies, txns, deleted>>
  /\ req' = [op |-> route, caller |-> Caller(m), id |-> id]
  /\ undo' = NoUndo
  /\ UNCHANGED <<products, orders, prescriptions, prescriptionCount>>
  /\ IF m.status # 0
     THEN resp' = [op |-> route, status |-> m.status, message |-> m.message]
     ELSE LET r == GetOrderResult(id, m.user.userId) IN
          resp' = [op |-> route, status |-> r.status, message |-> r.message]

HttpDeletePrescription(authorization, id) ==
  LET m == authorize({UserRole.USER}, authenticate(authorization)) IN
  /\ UNCHANGED <<users, registered, pharmacies, txns, deleted>>
  /\ req' = [op |-> "DELETE /prescriptions/:id", caller |-> Caller(m), id |-> id]
  /\ undo' = NoUndo
  /\ UNCHANGED <<products, orders, prescriptionCount>>
  /\ IF m.status # 0
     THEN /\ resp' = [op |-> "DELETE /prescriptions/:id", status |-> m.status,
                      message |-> m.message]
          /\ UNCHANGED prescriptions
     ELSE LET r == DeletePrescriptionResult(id, m.user.userId) IN
          /\ resp' = [op |-> "DELETE /prescriptions/:id", status |-> r.status,
                      message |-> r.message]
          /\ prescriptions' = r.prescriptions

\* POST /payments/process.  The handler copies orderId, paymentMethod, amount
\* and cardDetails from the body into the object it hands to the service; the
\* service reads paymentDetails from that object, which is never there.  A
\* failed payment is answered with 400.
HttpProcessPayment(authorization, body, approved) ==
  LET m == authorize({UserRole.USER}, authenticate(authorization)) IN
  /\ UNCHANGED <<users, registered, pharmacies, txns, deleted>>
  /\ req' = [op |-> "POST /payments/process", caller |-> Caller(m), body |-> body,
             approved |-> approved]
  /\ undo' = NoUndo
  /\ UNCHANGED <<products, prescriptions, prescriptionCount>>
  /\ IF m.status # 0
     THEN /\ resp' = [op |-> "POST /payments/process", status |-> m.status,
                      message |-> m.message]
          /\ UNCHANGED orders
     ELSE LET r == ProcessPaymentResult(m.user.userId, body.orderId, body.amount,
                                        body.paymentMethod, "none", approved)
          IN
          /\ resp' = [op |-> "POST /payments/process",
                      status |-> IF r.status = 200 /\ r.message = "failed" THEN 400
                                 ELSE r.status,
                      message |-> r.message]
          /\ orders' = r.orders

(***************************************************************************)
(* AuthService and UserService.  An absent or empty string of a request    *)
(* body is "", an absent email is Undefined; name is the list of the words *)
(* of the name field.                                                      *)
(***************************************************************************)
MaxUsers == 2

\* bcrypt.compare(password, hashedPassword)
comparePasswordNotEmpty(password, hashedPassword) == password # ""

comparePasswordMutant(password, hashedPassword) == TRUE

comparePassword(password, hashedPassword) == hashedPassword = hashPassword(password)

\* class-validator: @IsEmail() and @IsNotEmpty()
IsEmail(email) == email[1] = "email"

IsNotEmpty(text) == text # ""

\* a look-up that never finds a row
UserByEmailMutant(email) == {0}

\* findOne(User, { where: { email } }): the index of the row, or 0.  With an
\* undefined email the where clause is empty and the ORM may answer with the
\* first row of the table or with none.
UserByEmail(email) ==
  IF email = Undefined
  THEN {0} \cup (IF users = <<>> THEN {} ELSE {1})
  ELSE IF \E k \in 1..Len(users) : users[k].email = email
  THEN {CHOOSE k \in 1..Len(users) : users[k].email = email}
  ELSE {0}

\* an answer that hands out the row of the users table
AuthResponseMutant(user, roleOf) ==
  [token |-> generateToken([userId |-> user.id, email |-> user.email], JwtSecret),
   user |-> user]

\* the AuthResponse both operations build; the role is read from roleOf
AuthResponse(user, roleOf) ==
  LET payload == IF Has(roleOf, "role")
                 THEN [userId |-> user.id, email |-> user.email, role |-> roleOf.role]
                 ELSE [userId |-> user.id, email |-> user.email]
      shown == [id |-> user.id, firstName |-> user.firstName, lastName |-> user.lastName,
                email |-> user.email, isEmailVerified |-> user.isEmailVerified]
  IN [token |-> generateToken(payload, JwtSecret),
      user |-> IF Has(roleOf, "role") THEN shown @@ [role |-> roleOf.role] ELSE shown]

Failure(op, error) == [op |-> op, status |-> error.status, message |-> error.message]

PasswordTooShortMutant(password) == password = ""

\* !password || password.length < 6
PasswordTooShort(password) == password = "" \/ Len(password) < 6

registerUser(userData) ==
  LET fromName == userData.firstName = "" /\ userData.lastName = "" /\ userData.name # <<>>
      userFirstName == IF fromName THEN userData.name[1] ELSE userData.firstName
      userLastName == IF fromName
                      THEN (IF Len(userData.name) > 1 THEN userData.name[2] ELSE "")
                      ELSE userData.lastName
      user == [id |-> <<"user", Len(users) + 1>>,
               firstName |-> userFirstName, lastName |-> userLastName,
               email |-> userData.email, password |-> hashPassword(userData.password),
               isActive |-> TRUE, isEmailVerified |-> FALSE]
  IN
  /\ req' = [op |-> "registerUser", email |-> userData.email, password |-> userData.password]
  /\ UNCHANGED <<products, prescriptions, prescriptionCount, orders, undo,
               pharmacies, txns, deleted>>
  /\ \E existingUser \in UserByEmail(userData.email) :
       IF existingUser # 0
       THEN /\ resp' = Failure("registerUser",
                               AppError("User with this email already exists", 400))
            /\ UNCHANGED <<users, registered>>
       ELSE IF PasswordTooShort(userData.password)
       THEN /\ resp' = Failure("registerUser",
                               AppError("Password must be at least 6 characters long", 400))
            /\ UNCHANGED <<users, registered>>
       ELSE IF userData.email = Undefined \/ userFirstName = ""
       THEN /\ resp' = Failure("registerUser", AppError("Email and name are required", 400))
            /\ UNCHANGED <<users, registered>>
       ELSE IF ~(IsNotEmpty(user.firstName) /\ IsNotEmpty(user.lastName) /\ IsEmail(user.email))
       THEN /\ resp' = Failure("registerUser", AppError("Validation failed", 400))
            /\ UNCHANGED <<users, registered>>
       ELSE /\ Len(users) < MaxUsers
            /\ users' = Append(users, user)
            /\ registered' = registered \cup {[id |-> user.id, email |-> user.email,
                                               password |-> userData.password]}
            /\ resp' = [op |-> "registerUser", status |-> 201,
                        data |-> AuthResponse(user, [role |-> UserRole.USER])]

\* login looks the email up in the users table whatever credentials.role is,
\* and reads user.role, which no column of the users table holds
login(credentials) ==
  /\ req' = [op |-> "login", email |-> credentials.email, password |-> credentials.password,
             role |-> credentials.role]
  /\ UNCHANGED <<users, registered, products, prescriptions, prescriptionCount, orders, undo,
               pharmacies, txns, deleted>>
  /\ IF credentials.email = Undefined \/ credentials.password = ""
     THEN resp' = Failure("login", AppError("Email and password are required", 400))
     ELSE \E k \in UserByEmail(credentials.email) :
       IF k = 0
       THEN resp' = Failure("login", AppError("Invalid credentials", 401))
       ELSE IF ~comparePassword(credentials.password, users[k].password)
       THEN resp' = Failure("login", AppError("Invalid credentials", 401))
       ELSE IF ~users[k].isActive
       THEN resp' = Failure("login", AppError("Account has been deactivated", 401))
       ELSE resp' = [op |-> "login", status |-> 200,
                     data |-> AuthResponse(users[k], users[k])]

changePassword(userId, passwordData) ==
  LET k == FindUser(userId) IN
  /\ req' = [op |-> "changePassword", userId |-> userId]
  /\ UNCHANGED <<products, prescriptions, prescriptionCount, orders, undo,
               pharmacies, txns, deleted>>
  /\ IF passwordData.currentPassword = "" \/ passwordData.newPassword = ""
     THEN /\ resp' = Failure("changePassword",
                             AppError("Current password and new password are required", 400))
          /\ UNCHANGED <<users, registered>>
     ELSE IF Len(passwordData.newPassword) < 6
     THEN /\ resp' = Failure("changePassword",
                             AppError("New password must be at least 6 characters long", 400))
          /\ UNCHANGED <<users, registered>>
     ELSE IF k = 0
     THEN /\ resp' = Failure("changePassword", AppError("User not found", 404))
          /\ UNCHANGED <<users, registered>>
     ELSE IF ~comparePassword(passwordData.currentPassword, users[k].password)
     THEN /\ resp' = Failure("changePassword", AppError("Current password is incorrect", 400))
          /\ UNCHANGED <<users, registered>>
     ELSE /\ users' = [users EXCEPT ![k].password = hashPassword(passwordData.newPassword)]
          /\ registered' = {r \in registered : r.id # userId}
          /\ resp' = [op |-> "changePassword", status |-> 200, message |-> ""]

deactivateAccount(userId) ==
  LET k == FindUser(userId) IN
  /\ req' = [op |-> "deactivateAccount", userId |-> userId]
  /\ UNCHANGED <<registered, products, prescriptions, prescriptionCount, orders, undo,
               pharmacies, txns, deleted>>
  /\ IF k = 0
     THEN /\ resp' = Failure("deactivateAccount", AppError("User not found", 404))
          /\ UNCHANGED users
     ELSE /\ users' = [users EXCEPT ![k].isActive = FALSE]
          /\ resp' = [op |-> "deactivateAccount", status |-> 200, message |-> ""]

ToggledMutant(user) == [user EXCEPT !.isActive = TRUE]

\* user.isActive = !user.isActive
Toggled(user) == [user EXCEPT !.isActive = ~user.isActive]

\* AdminService.toggleUserStatus
toggleUserStatus(userId) ==
  LET k == FindUser(userId) IN
  /\ req' = [op |-> "toggleUserStatus", userId |-> userId]
  /\ UNCHANGED <<registered, products, prescriptions, prescriptionCount, orders, undo,
               pharmacies, txns, deleted>>
  /\ IF k = 0
     THEN /\ resp' = Failure("toggleUserStatus", AppError("User not found", 404))
          /\ UNCHANGED users
     ELSE /\ users' = [users EXCEPT ![k] = Toggled(users[k])]
          /\ resp' = [op |-> "toggleUserStatus", status |-> 200,
                      data |-> [isActive |-> users'[k].isActive]]

(***************************************************************************)
(* AuthService.registerPharmacy.                                           *)
(***************************************************************************)
MaxPharmacies == 2

\* findOne(Pharmacy, { where: { email } }), with an undefined email as in
\* UserByEmail
PharmacyByEmail(email) ==
  IF email = Undefined
  THEN {0} \cup (IF pharmacies = <<>> THEN {} ELSE {1})
  ELSE IF \E k \in 1..Len(pharmacies) : pharmacies[k].email = email
  THEN {CHOOSE k \in 1..Len(pharmacies) : pharmacies[k].email = email}
  ELSE {0}

\* findOne(Pharmacy, { where: { licenseNumber } }); "" is a missing number
PharmacyByLicense(licenseNumber) ==
  IF licenseNumber = ""
  THEN {0} \cup (IF pharmacies = <<>> THEN {} ELSE {1})
  ELSE IF \E k \in 1..Len(pharmacies) : pharmacies[k].licenseNumber = licenseNumber
  THEN {CHOOSE k \in 1..Len(pharmacies) : pharmacies[k].licenseNumber = licenseNumber}
  ELSE {0}

registerPharmacy(pharmacyData) ==
  LET pharmacy == [id |-> <<"pharmacy", Len(pharmacies) + 1>>,
                   name |-> pharmacyData.name, email |-> pharmacyData.email,
                   password |-> hashPassword(pharmacyData.password),
                   licenseNumber |-> pharmacyData.licenseNumber,
                   isVerified |-> FALSE, isActive |-> TRUE]
      shown == [id |-> pharmacy.id, firstName |-> pharmacy.name, lastName |-> "",
                email |-> pharmacy.email, isEmailVerified |-> pharmacy.isVerified]
  IN
  /\ req' = [op |-> "registerPharmacy", email |-> pharmacyData.email,
             password |-> pharmacyData.password]
  /\ UNCHANGED <<users, registered, txns, deleted, products, prescriptions, prescriptionCount, orders,
               undo>>
  /\ \E existingPharmacy \in PharmacyByEmail(pharmacyData.email),
        existingLicense \in PharmacyByLicense(pharmacyData.licenseNumber) :
       IF existingPharmacy # 0
       THEN /\ resp' = Failure("registerPharmacy",
                               AppError("Pharmacy with this email already exists", 400))
            /\ UNCHANGED pharmacies
       ELSE IF existingLicense # 0
       THEN /\ resp' = Failure("registerPharmacy",
                               AppError("Pharmacy with this license number already exists", 400))
            /\ UNCHANGED pharmacies
       ELSE IF \/ pharmacyData.name = "" \/ pharmacyData.email = Undefined
               \/ pharmacyData.password = "" \/ pharmacyData.phone = ""
               \/ pharmacyData.address = "" \/ pharmacyData.licenseNumber = ""
       THEN /\ resp' = Failure("registerPharmacy",
                               AppError("All fields are required for pharmacy registration", 400))
            /\ UNCHANGED pharmacies
       ELSE IF Len(pharmacyData.password) < 6
       THEN /\ resp' = Failure("registerPharmacy",
                               AppError("Password must be at least 6 characters long", 400))
            /\ UNCHANGED pharmacies
       ELSE IF ~(IsNotEmpty(pharmacy.name) /\ IsEmail(pharmacy.email))
       THEN /\ resp' = Failure("registerPharmacy", AppError("Validation failed", 400))
            /\ UNCHANGED pharmacies
       ELSE /\ Len(pharmacies) < MaxPharmacies
            /\ pharmacies' = Append(pharmacies, pharmacy)
            /\ resp' = [op |-> "registerPharmacy", status |-> 201,
                        data |-> [token |-> generateToken([userId |-> pharmacy.id,
                                                           email |-> pharmacy.email,
                                                           role |-> UserRole.PHARMACY],
                                                          JwtSecret),
                                  user |-> shown @@ [role |-> UserRole.PHARMACY]]]

(***************************************************************************)
(* Overlapping calls.  The data source sets no isolation level and the     *)
(* code takes no lock, so a transaction runs under the READ COMMITTED      *)
(* default of Postgres: every findOne sees the rows committed by then,     *)
(* save(entity) writes the value computed from the row the call has read,  *)
(* the row it writes stays locked until the transaction ends, and a        *)
(* writer of a locked row waits.  Carts here have one line and no          *)
(* prescription.                                                           *)
(***************************************************************************)
MaxConcurrentOrders == 2

\* another transaction has saved this product and has not ended yet
Locked(t, productId) ==
  \E u \in Tx \ {t} :
    /\ txns[u].op \in {"createOrder", "cancelOrder"}
    /\ txns[u].pc = "saved" /\ txns[u].productId = productId

\* createOrder up to the findOne of the product and the stock check
beginCreateOrder(t, userId, item) ==
  /\ txns[t] = Idle
  /\ Len(orders) + Cardinality({u \in Tx : txns[u].op = "createOrder"}) < MaxConcurrentOrders
  /\ req' = [op |-> "createOrder", tx |-> t, userId |-> userId, items |-> <<item>>]
  /\ undo' = NoUndo
  /\ UNCHANGED <<users, registered, pharmacies, deleted, products, prescriptions, prescriptionCount,
                 orders>>
  /\ IF ~UserExists(userId)
     THEN /\ resp' = [op |-> "createOrder", status |-> 404, message |-> "User not found"]
          /\ UNCHANGED txns
     ELSE IF item.productId \notin DOMAIN products
     THEN /\ resp' = [op |-> "createOrder", status |-> 404, message |-> "Product not found"]
          /\ UNCHANGED txns
     ELSE IF products[item.productId].stockQuantity < item.quantity
     THEN /\ resp' = [op |-> "createOrder", status |-> 400,
                      message |-> "Insufficient stock for product"]
          /\ UNCHANGED txns
     ELSE /\ resp' = NoResponse
          /\ txns' = [txns EXCEPT ![t] =
                        [op |-> "createOrder", pc |-> "read", userId |-> userId,
                         productId |-> item.productId, quantity |-> item.quantity,
                         product |-> products[item.productId]]]

\* cancelOrder up to the findOne of the order and the status check
beginCancelOrder(t, userId, orderId) ==
  LET k == FindOrder(orderId, userId) IN
  /\ txns[t] = Idle
  /\ req' = [op |-> "cancelOrder", tx |-> t, userId |-> userId, orderId |-> orderId]
  /\ undo' = NoUndo
  /\ UNCHANGED <<users, registered, pharmacies, deleted, products, prescriptions, prescriptionCount,
                 orders>>
  /\ IF k = 0
     THEN /\ resp' = [op |-> "cancelOrder", status |-> 404, message |-> "Order not found"]
          /\ UNCHANGED txns
     ELSE IF orders[k].status # OrderStatus.PENDING
     THEN /\ resp' = [op |-> "cancelOrder", status |-> 400,
                      message |-> "Only pending orders can be cancelled"]
          /\ UNCHANGED txns
     ELSE /\ resp' = NoResponse
          /\ txns' = [txns EXCEPT ![t] =
                        [op |-> "cancelOrder", pc |-> "order", k |-> k,
                         productId |-> orders[k].orderItems[1].productId,
                         quantity |-> orders[k].orderItems[1].quantity]]

\* cancelOrder: the findOne of the product of the order item
findProduct(t) ==
  /\ txns[t].op = "cancelOrder" /\ txns[t].pc = "order"
  /\ txns' = [txns EXCEPT ![t] = [op |-> "cancelOrder", pc |-> "read",
                                   k |-> txns[t].k,
                                   productId |-> txns[t].productId,
                                   quantity |-> txns[t].quantity,
                                   product |-> products[txns[t].productId]]]
  /\ req' = [op |-> "findProduct", tx |-> t]
  /\ resp' = NoResponse
  /\ undo' = NoUndo
  /\ UNCHANGED <<users, registered, pharmacies, deleted, products, prescriptions, prescriptionCount,
                 orders>>

\* product.stockQuantity -= item.quantity (createOrder) or += item.quantity
\* (cancelOrder) and save(product), once the row is not locked
saveProduct(t) ==
  /\ txns[t].op \in {"createOrder", "cancelOrder"} /\ txns[t].pc = "read"
  /\ ~Locked(t, txns[t].productId)
  /\ txns' = [txns EXCEPT
                ![t].pc = "saved",
                ![t].product.stockQuantity =
                   IF txns[t].op = "createOrder" THEN @ - txns[t].quantity
                   ELSE @ + txns[t].quantity]
  /\ req' = [op |-> "saveProduct", tx |-> t]
  /\ resp' = NoResponse
  /\ undo' = NoUndo
  /\ UNCHANGED <<users, registered, pharmacies, deleted, products, prescriptions, prescriptionCount,
                 orders>>

\* the rest of the transaction and its end: createOrder checks the
\* prescription, saves the order and its item; cancelOrder saves the order as
\* CANCELLED; the stock saved becomes the committed stock
commit(t) ==
  LET tx == txns[t]
      itemTotal == ItemTotal(tx.product.price, tx.quantity)
      v == [totalAmount |-> itemTotal,
            orderItems |-> <<[productId |-> tx.productId, quantity |-> tx.quantity,
                              unitPrice |-> tx.product.price, totalPrice |-> itemTotal]>>]
      stored == [products EXCEPT
                   ![tx.productId].stockQuantity = tx.product.stockQuantity]
  IN
  /\ tx.op \in {"createOrder", "cancelOrder"} /\ tx.pc = "saved"
  /\ txns' = [txns EXCEPT ![t] = Idle]
  /\ req' = [op |-> "commit", tx |-> t, of |-> tx.op]
  /\ undo' = NoUndo
  /\ UNCHANGED <<users, registered, pharmacies, deleted, prescriptions, prescriptionCount>>
  /\ IF tx.op = "cancelOrder"
     THEN /\ products' = stored
          /\ orders' = [orders EXCEPT
                          ![tx.k].status = OrderStatus.CANCELLED]
          /\ resp' = [op |-> "cancelOrder", status |-> 200,
                      message |-> "Order cancelled successfully"]
     ELSE IF tx.product.requiresPrescription
     THEN /\ resp' = [op |-> "createOrder", status |-> 400,
                      message |-> "Prescription is required for this order"]
          /\ products' = Rollback(products, stored)
          /\ UNCHANGED orders
     ELSE IF ~IsPositive(itemTotal)
     THEN /\ resp' = [op |-> "createOrder", status |-> 400,
                      message |-> "Order validation failed"]
          /\ products' = Rollback(products, stored)
          /\ UNCHANGED orders
     ELSE /\ products' = stored
          /\ orders' = Append(orders,
                              NewOrder(tx.userId, [prescriptionId |-> Undefined], v))
          /\ resp' = [op |-> "createOrder", status |-> 201,
                      message |-> "Order created successfully"]

\* processPayment up to the call of the gateway (no transaction): the amount
\* is the order's total and the details are complete
beginPayment(t, userId, orderId) ==
  LET k == FindOrder(orderId, userId) IN
  /\ txns[t] = Idle
  /\ req' = [op |-> "processPayment", tx |-> t, userId |-> userId, orderId |-> orderId]
  /\ undo' = NoUndo
  /\ UNCHANGED <<users, registered, pharmacies, deleted, products, prescriptions, prescriptionCount,
                 orders>>
  /\ IF k = 0
     THEN /\ resp' = [op |-> "processPayment", status |-> 404, message |-> "Order not found"]
          /\ UNCHANGED txns
     ELSE IF orders[k].status # OrderStatus.PENDING
     THEN /\ resp' = [op |-> "processPayment", status |-> 400,
                      message |-> "Order is not in a payable state"]
          /\ UNCHANGED txns
     ELSE /\ resp' = NoResponse
          /\ txns' = [txns EXCEPT ![t] =
                        [op |-> "processPayment", pc |-> "gateway", k |-> k]]

\* processPayment from the answer of the gateway: a completed payment sets
\* status APPROVED on the order as it was read and saves it
finishPayment(t, paymentMethod, approved) ==
  LET k == txns[t].k
      result == GatewayResult(paymentMethod, "complete", approved)
  IN
  /\ txns[t].op = "processPayment"
  /\ txns' = [txns EXCEPT ![t] = Idle]
  /\ req' = [op |-> "finishPayment", tx |-> t, k |-> k]
  /\ resp' = [op |-> "processPayment", status |-> 200, message |-> result]
  /\ undo' = NoUndo
  /\ UNCHANGED <<users, registered, pharmacies, deleted, products, prescriptions, prescriptionCount>>
  /\ orders' = IF result = "completed"
               THEN [orders EXCEPT ![k].status = OrderStatus.APPROVED]
               ELSE orders

(***************************************************************************)
(* Inputs.                                                                 *)
(***************************************************************************)
Line(productId, quantity) == [productId |-> productId, quantity |-> quantity]

\* cart lines: within stock, over stock, zero, negative, of a missing product
CartLines ==
  {Line(<<"product", 1>>, 1), Line(<<"product", 1>>, MaxStock),
   Line(<<"product", 2>>, 1), Line(<<"product", 2>>, 0), Line(<<"product", 2>>, 0 - 1),
   Line(NoSuchProduct, 1)}

Carts == UNION {[1..n -> CartLines] : n \in 0..MaxCart}

OrderInputs ==
  [items : Carts, shippingAddress : {TRUE}, prescriptionId : PrescriptionIds \cup {Undefined}]
  \cup {[items |-> <<Line(<<"product", 1>>, 1)>>, shippingAddress |-> FALSE,
         prescriptionId |-> Undefined]}

\* the carts of the long runs: one line, a prescription product with another,
\* the same product twice, a negative quantity
SomeCarts ==
  {<<Line(<<"product", 1>>, 1)>>,
   <<Line(<<"product", 1>>, 1), Line(<<"product", 2>>, 1)>>,
   <<Line(<<"product", 1>>, 1), Line(<<"product", 1>>, MaxStock)>>,
   <<Line(<<"product", 1>>, MaxStock), Line(<<"product", 2>>, 0 - 1)>>}

SomeOrderInputs == {orderData \in OrderInputs : orderData.items \in SomeCarts}

UpdateInputs ==
  {[stockQuantity |-> n] : n \in {0 - 1, 0, MaxStock}}
  \cup {[price |-> 0]}

Payment(paymentMethod, paymentDetails, approved, over) ==
  [paymentMethod |-> paymentMethod, paymentDetails |-> paymentDetails,
   approved |-> approved, over |-> over]

\* over: what the amount sent is above the order's totalAmount
PaymentInputs ==
  {Payment("card", "complete", TRUE, 0), Payment("card", "complete", FALSE, 0),
   Payment("card", "short", TRUE, 0), Payment("card", "incomplete", TRUE, 0),
   Payment("card", "none", TRUE, 0), Payment("card", "complete", TRUE, 1),
   Payment("bank_transfer", "complete", TRUE, 0),
   Payment("mobile_money", "complete", TRUE, 0),
   Payment("mobile_money", "complete", FALSE, 0),
   Payment("cash", "complete", TRUE, 0)}

UserToken(userId, role) ==
  generateToken([userId |-> userId, email |-> EmailOf(userId), role |-> role], JwtSecret)

Bearer(token) == [prefix |-> "Bearer ", rest |-> token]

\* the headers of the callers of the by-id routes: none, a user's token, a
\* pharmacy's token
OrderHeaders ==
  {Null}
  \cup {Bearer(UserToken(userId, UserRole.USER)) : userId \in UserIds}
  \cup {Bearer(UserToken(<<"pharmacy", 1>>, UserRole.PHARMACY))}

Next ==
  \/ \E userId \in UserIds, orderData \in SomeOrderInputs : createOrder(userId, orderData)
  \/ \E userId \in UserIds, orderId \in OrderIds : cancelOrder(userId, orderId)
  \/ \E pharmacyId \in PharmacyIds, productId \in ProductIds, updateData \in UpdateInputs :
       updateProduct(pharmacyId, productId, updateData)
  \/ \E userId \in UserIds \cup {NoSuchUser}, fileOk \in BOOLEAN :
       uploadPrescription(userId, fileOk)
  \/ \E prescriptionId \in PrescriptionIds,
        status \in {PrescriptionStatus.APPROVED, PrescriptionStatus.REJECTED,
                    PrescriptionStatus.PENDING} :
       reviewPrescription(prescriptionId, status, "", AdminId, 1)
  \/ \E userId \in UserIds, prescriptionId \in PrescriptionIds :
       deletePrescription(userId, prescriptionId)
  \/ \E userId \in UserIds, orderId \in OrderIds, payment \in PaymentInputs :
       /\ orderId[2] <= Len(orders)
       /\ processPayment(userId, orderId, orders[orderId[2]].totalAmount + payment.over,
                         payment.paymentMethod, payment.paymentDetails, payment.approved)
  \/ \E userId \in UserIds, orderId \in OrderIds, amount \in 0..1 :
       processRefund(userId, orderId, amount)
  \/ \E authorization \in OrderHeaders, id \in OrderIds : HttpCancelOrder(authorization, id)
  \/ \E route \in {"GET /orders/:id", "GET /orders/:id/track"},
        authorization \in OrderHeaders, id \in OrderIds :
       HttpGetOrder(route, authorization, id)
  \/ \E authorization \in OrderHeaders, id \in PrescriptionIds :
       HttpDeletePrescription(authorization, id)

Spec == Init /\ [][Next]_vars

(***************************************************************************)
(* Single calls of createOrder: any cart of up to MaxCart lines, from any  *)
(* stock and prescription the tables can hold before the first order, the  *)
(* two products at different prices and at the same price.                 *)
(***************************************************************************)
Prices == {2, 3}

PrescriptionRows ==
  {NoRow}
  \cup [status : {PrescriptionStatus.PENDING}, userId : UserIds, adminNotes : {""},
        approvedBy : {Undefined}, approvedAt : {0}]
  \cup [status : {PrescriptionStatus.APPROVED, PrescriptionStatus.REJECTED},
        userId : UserIds, adminNotes : {""}, approvedBy : {AdminId}, approvedAt : {1}]

InitCreate ==
  /\ users = SeedUsers
  /\ registered = {}
  /\ pharmacies = SeedPharmacies
  /\ txns = NoTxns
  /\ deleted = {}
  /\ \E stk \in [ProductIds -> 0..MaxStock], price \in Prices :
       products = [p \in ProductIds |->
                     [SeedProducts[p] EXCEPT
                        !.stockQuantity = stk[p],
                        !.price = IF p = <<"product", 1>> THEN price ELSE @]]
  /\ prescriptionCount \in 0..MaxPrescriptions
  /\ prescriptions \in [PrescriptionIds -> PrescriptionRows]
  /\ \A id \in PrescriptionIds : id[2] > prescriptionCount => prescriptions[id] = NoRow
  /\ orders = <<>>
  /\ undo = NoUndo
  /\ req = NoRequest
  /\ resp = NoResponse

\* one call, of the first user or of a user that does not exist (the
\* prescriptions are of either user)
NextCreate ==
  /\ req = NoRequest
  /\ \E userId \in {<<"user", 1>>, NoSuchUser}, orderData \in OrderInputs :
       createOrder(userId, orderData)

CreateSpec == InitCreate /\ [][NextCreate]_vars


(***************************************************************************)
(* The life of an order: the calls that create and cancel it, the calls    *)
(* that give it a prescription, and pharmacies that sell out or delete a   *)
(* product meanwhile.                                                      *)
(***************************************************************************)
SoldOut == [stockQuantity |-> 0]

NextOrders ==
  \/ \E userId \in UserIds, orderData \in SomeOrderInputs : createOrder(userId, orderData)
  \/ \E userId \in UserIds, orderId \in OrderIds : cancelOrder(userId, orderId)
  \/ updateProduct(<<"pharmacy", 2>>, <<"product", 2>>, SoldOut)
  \/ deleteProduct(<<"pharmacy", 1>>, <<"product", 1>>)
  \/ uploadPrescription(<<"user", 1>>, TRUE)
  \/ \E prescriptionId \in PrescriptionIds :
       reviewPrescription(prescriptionId, PrescriptionStatus.APPROVED, "", AdminId, 1)

OrderSpec == Init /\ [][NextOrders]_vars

(***************************************************************************)
(* Prescriptions: uploads, admin reviews at two times with and without     *)
(* notes, and deletions by the users.                                      *)
(***************************************************************************)
ReviewStatuses ==
  {PrescriptionStatus.APPROVED, PrescriptionStatus.REJECTED, PrescriptionStatus.PENDING, ""}

NextPrescriptions ==
  \/ \E userId \in UserIds : uploadPrescription(userId, TRUE)
  \/ \E prescriptionId \in PrescriptionIds, status \in ReviewStatuses,
        adminNotes \in {"", "dose unclear"}, adminId \in {AdminId, Undefined},
        now \in {1, 2} :
       reviewPrescription(prescriptionId, status, adminNotes, adminId, now)
  \/ \E userId \in UserIds, prescriptionId \in PrescriptionIds :
       deletePrescription(userId, prescriptionId)

PrescriptionSpec == Init /\ [][NextPrescriptions]_vars

(***************************************************************************)
(* The product catalogue: pharmacies create, change and delete products,   *)
(* an admin approves and rejects them, anyone lists them.                  *)
(***************************************************************************)
AllProductIds == {<<"product", n>> : n \in 1..(MaxProducts + 1)}

NewProduct(name, price) ==
  [name |-> name, description |-> "tablets", category |-> "pain relief",
   price |-> price, stockQuantity |-> 1, requiresPrescription |-> FALSE]

CreateProductInputs ==
  {NewProduct("Aspirin", 2), NewProduct("", 2), NewProduct("Aspirin", 0),
   [name |-> "Aspirin", description |-> "tablets", category |-> "pain relief",
    requiresPrescription |-> FALSE]}

ProductUpdateInputs == {[name |-> "Aspirin 500"], [price |-> 3]}

NextProducts ==
  \/ \E pharmacyId \in PharmacyIds \cup {<<"pharmacy", 0>>},
        productData \in CreateProductInputs :
       createProduct(pharmacyId, productData)
  \/ \E pharmacyId \in PharmacyIds, productId \in AllProductIds,
        updateData \in ProductUpdateInputs :
       updateProduct(pharmacyId, productId, updateData)
  \/ \E pharmacyId \in PharmacyIds : deleteProduct(pharmacyId, <<"product", 1>>)
  \/ \E productId \in AllProductIds : approveProduct(productId)
  \/ \E productId \in AllProductIds : rejectProduct(productId)
  \/ getProducts

ProductSpec == Init /\ [][NextProducts]_vars

(***************************************************************************)
(* Updates of the seeded products: every field of updateData on its own,   *)
(* an empty name, and a name with a price that fails validation, by the    *)
(* owner and by the other pharmacy, with deletions and approvals between.  *)
(***************************************************************************)
StatusUpdateInputs ==
  {[name |-> "Aspirin 500"], [name |-> ""], [description |-> "coated tablets"],
   [requiresPrescription |-> TRUE], [price |-> 3], [stockQuantity |-> 1],
   [category |-> "fever"], [imageUrl |-> "aspirin.png"],
   [name |-> "Aspirin 500", price |-> 0]}

NextUpdates ==
  \/ \E pharmacyId \in PharmacyIds, productId \in ProductIds,
        updateData \in StatusUpdateInputs :
       updateProduct(pharmacyId, productId, updateData)
  \/ \E pharmacyId \in PharmacyIds, productId \in ProductIds :
       deleteProduct(pharmacyId, productId)
  \/ \E productId \in ProductIds : approveProduct(productId)

UpdateSpec == Init /\ [][NextUpdates]_vars

(***************************************************************************)
(* Payments: a user places orders and pays for them, through the service   *)
(* and through POST /payments/process.                                     *)
(***************************************************************************)
PaymentBody(orderId, paymentMethod, amount, cardDetails) ==
  [orderId |-> orderId, paymentMethod |-> paymentMethod, amount |-> amount,
   cardDetails |-> cardDetails]

\* bodies whose amount is the total of the order they name
PaymentBodies ==
  {PaymentBody(orderId, paymentMethod, orders[orderId[2]].totalAmount, cardDetails) :
     orderId \in {id \in OrderIds : id[2] <= Len(orders)},
     paymentMethod \in PaymentMethods \cup {"cash"},
     cardDetails \in {"complete", "incomplete", "none"}}

NextPayments ==
  \/ \E orderData \in SomeOrderInputs : createOrder(<<"user", 1>>, orderData)
  \/ \E authorization \in OrderHeaders, body \in PaymentBodies, approved \in BOOLEAN :
       HttpProcessPayment(authorization, body, approved)
  \/ \E orderId \in OrderIds, approved \in BOOLEAN :
       /\ orderId[2] <= Len(orders)
       /\ processPayment(<<"user", 1>>, orderId, orders[orderId[2]].totalAmount,
                         "mobile_money", "complete", approved)

PaymentSpec == Init /\ [][NextPayments]_vars

(***************************************************************************)
(* The orders of two users: each orders product 1, and both pay, cancel,   *)
(* ask for a refund and read, by the services, their own orders and each   *)
(* other's.                                                                *)
(***************************************************************************)
NextOwnOrders ==
  \/ \E userId \in UserIds, quantity \in {1, MaxStock} :
       createOrder(userId, [items |-> <<Line(<<"product", 1>>, quantity)>>,
                            shippingAddress |-> TRUE, prescriptionId |-> Undefined])
  \/ \E userId \in UserIds, orderId \in OrderIds, payment \in PaymentInputs :
       /\ orderId[2] <= Len(orders)
       /\ processPayment(userId, orderId, orders[orderId[2]].totalAmount + payment.over,
                         payment.paymentMethod, payment.paymentDetails, payment.approved)
  \/ \E userId \in UserIds, orderId \in OrderIds : cancelOrder(userId, orderId)
  \/ \E userId \in UserIds, orderId \in OrderIds, amount \in 0..1 :
       processRefund(userId, orderId, amount)
  \/ \E op \in {"getOrderById", "trackOrder", "getPaymentStatus"},
        userId \in UserIds, orderId \in OrderIds :
       getOrder(op, userId, orderId)

OwnOrderSpec == Init /\ [][NextOwnOrders]_vars

(***************************************************************************)
(* Two calls at a time: orders are placed, cancelled, paid and refunded    *)
(* while another call is in progress.                                      *)
(***************************************************************************)
NextConcurrent ==
  \/ \E t \in Tx, userId \in UserIds, productId \in ProductIds, quantity \in 1..MaxStock :
       beginCreateOrder(t, userId, Line(productId, quantity))
  \/ \E t \in Tx, userId \in UserIds, orderId \in OrderIds \cup {<<"order", 2>>} :
       beginCancelOrder(t, userId, orderId)
  \/ \E t \in Tx : findProduct(t)
  \/ \E t \in Tx : saveProduct(t)
  \/ \E t \in Tx : commit(t)
  \/ \E t \in Tx, userId \in UserIds, orderId \in OrderIds \cup {<<"order", 2>>} :
       beginPayment(t, userId, orderId)
  \/ \E t \in Tx, paymentMethod \in PaymentMethods, approved \in BOOLEAN :
       finishPayment(t, paymentMethod, approved)
  \/ \E userId \in UserIds, orderId \in OrderIds \cup {<<"order", 2>>} :
       /\ txns = NoTxns
       /\ processRefund(userId, orderId, 0)

ConcurrentSpec == Init /\ [][NextConcurrent]_vars

(***************************************************************************)
(* The routers.  A route is public or stands behind authenticate and       *)
(* authorize(roles); one route stands for the handlers of a router that    *)
(* share its middleware.                                                   *)
(***************************************************************************)
Public == [guarded |-> FALSE, roles |-> {}]

Guarded(roles) == [guarded |-> TRUE, roles |-> roles]

Routes ==
  [admin |-> Guarded({UserRole.ADMIN}),
   orders |-> Guarded({UserRole.USER}),
   prescriptions |-> Guarded({UserRole.USER}),
   payments |-> Guarded({UserRole.USER}),
   users |-> Guarded({UserRole.USER}),
   getProducts |-> Public,
   createProduct |-> Guarded({UserRole.PHARMACY}),
   updateProduct |-> Guarded({UserRole.PHARMACY}),
   deleteProduct |-> Guarded({UserRole.PHARMACY})]

\* a request to a route: the middleware in front of the handler, then the
\* handler; ran records whether the handler was called
Request(route, authorization) ==
  LET m == IF Routes[route].guarded
           THEN authorize(Routes[route].roles, authenticate(authorization))
           ELSE [status |-> 0]
  IN
  /\ req' = [op |-> "request", route |-> route, authorization |-> authorization]
  /\ resp' = IF m.status # 0
             THEN [op |-> "request", status |-> m.status, message |-> m.message, ran |-> FALSE]
             ELSE [op |-> "request", status |-> 200, message |-> "", ran |-> TRUE]
  /\ UNCHANGED <<users, registered, products, prescriptions, prescriptionCount, orders, undo,
               pharmacies, txns, deleted>>

(***************************************************************************)
(* Accounts and requests from an empty users table.                        *)
(***************************************************************************)
Emails == {EmailOf(<<"user", 1>>), EmailOf(<<"user", 2>>)}

NotAnEmail == <<"text", 1>>

Passwords == {"user123", "secret"}

RegisterInputs ==
  [firstName : {"", "John"}, lastName : {"", "Doe"}, name : {<<>>, <<"Jane">>},
   email : Emails \cup {Undefined}, password : Passwords \cup {"short"}]
  \cup {[firstName |-> "", lastName |-> "", name |-> <<"Jane", "Roe">>,
         email |-> e, password |-> "secret"] : e \in Emails \cup {NotAnEmail}}
  \cup {[firstName |-> "John", lastName |-> "Doe", name |-> <<>>,
         email |-> e, password |-> ""] : e \in Emails}

\* POST /auth/login: the controller adds role USER
LoginInputs ==
  [email : Emails \cup {Undefined}, password : Passwords \cup {""}, role : {UserRole.USER}]

PasswordInputs ==
  [currentPassword : {"user123", ""}, newPassword : {"secret", "short"}]

Expired(token) == [token EXCEPT !.expired = TRUE]

Forged(token) == [token EXCEPT !.signedWith = "another-secret"]

\* the tokens in circulation: of each role, without a role (as login signs
\* them), out of date, signed by someone else
Tokens ==
  {UserToken(<<"user", 1>>, UserRole.USER), UserToken(AdminId, UserRole.ADMIN),
   UserToken(<<"pharmacy", 1>>, UserRole.PHARMACY),
   generateToken([userId |-> <<"user", 1>>, email |-> EmailOf(<<"user", 1>>)], JwtSecret),
   Expired(UserToken(<<"user", 1>>, UserRole.USER)),
   Forged(UserToken(AdminId, UserRole.ADMIN))}

Headers ==
  {Null, EmptyHeader, [prefix |-> "Bearer ", rest |-> Empty]}
  \cup {Bearer(token) : token \in Tokens}
  \cup {[prefix |-> "Basic U", rest |-> UserToken(<<"user", 1>>, UserRole.USER)]}

\* the header of a client that sends the token of the last answer
LastToken == IF Has(resp, "data") THEN {Bearer(resp.data.token)} ELSE {}

InitAuth ==
  /\ users = <<>>
  /\ registered = {}
  /\ pharmacies = <<>>
  /\ txns = NoTxns
  /\ deleted = {}
  /\ products = SeedProducts
  /\ prescriptions = [id \in PrescriptionIds |-> NoRow]
  /\ prescriptionCount = 0
  /\ orders = <<>>
  /\ undo = NoUndo
  /\ req = NoRequest
  /\ resp = NoResponse

NextAuth ==
  \/ \E userData \in RegisterInputs : registerUser(userData)
  \/ \E credentials \in LoginInputs : login(credentials)
  \/ \E userId \in UserIds, passwordData \in PasswordInputs :
       changePassword(userId, passwordData)
  \/ \E userId \in UserIds : deactivateAccount(userId)
  \/ \E route \in DOMAIN Routes, authorization \in Headers \cup LastToken :
       Request(route, authorization)

AuthSpec == InitAuth /\ [][NextAuth]_vars

(***************************************************************************)
(* Pharmacy accounts: registrations, the pharmacy login (the controller    *)
(* adds role PHARMACY), and users registering beside them.                 *)
(***************************************************************************)
PharmacyInputs ==
  [name : {"City Pharmacy"}, email : Emails \cup {Undefined}, password : {"user123", "short"},
   phone : {"0771"}, address : {"1 Main St", ""}, licenseNumber : {"PH001", "PH002"}]

PharmacyLoginInputs ==
  [email : Emails, password : Passwords, role : {UserRole.PHARMACY}]

NextPharmacy ==
  \/ \E pharmacyData \in PharmacyInputs : registerPharmacy(pharmacyData)
  \/ \E credentials \in PharmacyLoginInputs : login(credentials)
  \/ \E email \in Emails :
       registerUser([firstName |-> "John", lastName |-> "Doe", name |-> <<>>,
                     email |-> email, password |-> "user123"])

PharmacySpec == InitAuth /\ [][NextPharmacy]_vars

(***************************************************************************)
(* Account status: users register and log in while accounts are            *)
(* deactivated by their owners and toggled by an admin.                    *)
(***************************************************************************)
StatusRegisterInputs ==
  [firstName : {"John"}, lastName : {"Doe"}, name : {<<>>},
   email : Emails, password : Passwords]

NextStatus ==
  \/ \E userData \in StatusRegisterInputs : registerUser(userData)
  \/ \E credentials \in LoginInputs : login(credentials)
  \/ \E userId \in UserIds \cup {NoSuchUser} : deactivateAccount(userId)
  \/ \E userId \in UserIds \cup {NoSuchUser} : toggleUserStatus(userId)

StatusSpec == InitAuth /\ [][NextStatus]_vars

(***************************************************************************)
(* Tokens: payloads are signed and tokens verified with the secret set and *)
(* unset, and requests are authenticated.                                  *)
(***************************************************************************)
Subjects == {<<"user", 1>>, <<"user", 2>>, AdminId, <<"pharmacy", 1>>}

\* the payloads the services sign: with a role, and (login) without one
Payloads ==
  {[userId |-> id, email |-> EmailOf(id), role |-> role] :
     id \in Subjects, role \in {UserRole.USER, UserRole.ADMIN, UserRole.PHARMACY}}
  \cup {[userId |-> id, email |-> EmailOf(id)] : id \in Subjects}

Secrets == {JwtSecret, ""}

\* a string that no jwt.sign produced
Garbage == [payload |-> [garbage |-> TRUE], signedWith |-> "nothing", expired |-> FALSE]

Presented ==
  {generateToken(p, JwtSecret) : p \in Payloads}
  \cup {Forged(generateToken(p, JwtSecret)) : p \in Payloads}
  \cup {Expired(generateToken(p, JwtSecret)) : p \in Payloads}
  \cup {Garbage}

Sign(payload, secret) ==
  /\ req' = [op |-> "generateToken", payload |-> payload, secret |-> secret]
  /\ resp' = [op |-> "generateToken", status |-> 0, result |-> generateToken(payload, secret)]
  /\ UNCHANGED <<users, registered, pharmacies, txns, deleted, products, prescriptions,
                 prescriptionCount,
                 orders, undo>>

Verify(token, secret) ==
  /\ req' = [op |-> "verifyToken", token |-> token, secret |-> secret]
  /\ resp' = [op |-> "verifyToken", status |-> 0, result |-> verifyToken(token, secret)]
  /\ UNCHANGED <<users, registered, pharmacies, txns, deleted, products, prescriptions,
                 prescriptionCount,
                 orders, undo>>

Authenticate(authorization) ==
  /\ req' = [op |-> "authenticate", authorization |-> authorization]
  /\ resp' = [op |-> "authenticate", status |-> 0, result |-> authenticate(authorization)]
  /\ UNCHANGED <<users, registered, pharmacies, txns, deleted, products, prescriptions,
                 prescriptionCount,
                 orders, undo>>

\* headers: missing, empty, shorter than the prefix, and 7 characters that
\* are or are not the prefix followed by nothing or by a token
HeaderInputs ==
  {Null, EmptyHeader, [prefix |-> "Bearer", rest |-> Empty]}
  \cup [prefix : {"Bearer ", "bearer ", "Bearer:", "Basic U"},
        rest : Presented \cup {Empty}]

Extract(authHeader) ==
  /\ req' = [op |-> "extractTokenFromHeader", authHeader |-> authHeader]
  /\ resp' = [op |-> "extractTokenFromHeader", status |-> 0,
              result |-> extractTokenFromHeader(authHeader)]
  /\ UNCHANGED <<users, registered, pharmacies, txns, deleted, products, prescriptions,
                 prescriptionCount,
                 orders, undo>>

NextTokens ==
  \/ \E payload \in Payloads, secret \in Secrets : Sign(payload, secret)
  \/ \E token \in Presented, secret \in Secrets : Verify(token, secret)
  \/ \E token \in Presented : Authenticate(Bearer(token))
  \/ \E authHeader \in HeaderInputs : Extract(authHeader)

TokenSpec == InitAuth /\ [][NextTokens]_vars

(***************************************************************************)
(* Properties of the order flow.                                           *)
(***************************************************************************)
RECURSIVE QuantityOf(_, _)
\* the sum of the quantities of the items of product p
QuantityOf(orderItems, p) ==
  IF orderItems = <<>> THEN 0
  ELSE (IF Head(orderItems).productId = p THEN Head(orderItems).quantity ELSE 0)
       + QuantityOf(Tail(orderItems), p)

RECURSIVE SumTotalPrice(_)
SumTotalPrice(orderItems) ==
  IF orderItems = <<>> THEN 0
  ELSE Head(orderItems).totalPrice + SumTotalPrice(Tail(orderItems))

\* C1: in every reachable state every product's stockQuantity is >= 0, under
\* any sequence of createOrder, cancelOrder and updateProduct calls that
\* starts from products with non-negative stock.
C1_StockNeverNegative == \A p \in ProductIds : products[p].stockQuantity >= 0

ApprovedFor(prescriptionId, userId) ==
  /\ prescriptionId \in PrescriptionIds
  /\ prescriptions[prescriptionId].status = PrescriptionStatus.APPROVED
  /\ prescriptions[prescriptionId].userId = userId

NamesPrescriptionProduct(lines) ==
  \E i \in 1..Len(lines) :
    /\ lines[i].productId \in ProductIds
    /\ products[lines[i].productId].requiresPrescription

AllProductsExist(lines) == \A i \in 1..Len(lines) : lines[i].productId \in ProductIds

C2_Step ==
  resp'.op = "createOrder" =>
    /\ Len(orders') > Len(orders) =>
         LET order == orders'[Len(orders')] IN
         /\ order.userId = req'.userId
         /\ NamesPrescriptionProduct(order.orderItems) =>
              ApprovedFor(order.prescriptionId, order.userId)
    /\ (NamesPrescriptionProduct(req'.items) /\ ~ApprovedFor(req'.prescriptionId, req'.userId)) =>
         /\ orders' = orders
         /\ resp'.status \in {400, 404}
         /\ (AllProductsExist(req'.items) /\ req'.userId \in UserIds) => resp'.status = 400

C3_AllOrNothing ==
  [][(resp'.op = "createOrder" /\ resp'.status # 201) =>
       (products' = products /\ orders' = orders)]_vars

\* a failure at the second line, after the decrement of the first line was saved
C3_Witness ==
  /\ resp.op = "createOrder" /\ resp.status = 400
  /\ resp.message = "Insufficient stock for product"
  /\ Len(req.items) = 2
  /\ req.items[1].productId \in ProductIds
  /\ req.items[1].quantity >= 1
  /\ req.items[1].quantity <= products[req.items[1].productId].stockQuantity

C4_Step ==
  (/\ req'.op = "cancelOrder"
   /\ \E k \in 1..Len(orders) : /\ orders[k].id = req'.orderId
                                /\ orders[k].userId = req'.userId
                                /\ orders[k].status = OrderStatus.PENDING)
  => LET k == req'.orderId[2] IN
     /\ resp'.status = 200
     /\ orders'[k].status = OrderStatus.CANCELLED
     /\ \A p \in ProductIds :
          products'[p].stockQuantity =
            products[p].stockQuantity + QuantityOf(orders[k].orderItems, p)
     /\ undo.orderId = req'.orderId => StockOf(products') = undo.stock

\* C4: cancelOrder on a PENDING order of the caller sets it to CANCELLED and
\* adds each item's quantity back to its product's stock; when the call
\* before it was the createOrder of that order, the stock is then what it
\* was before the order was created.
C4_CancelRestoresStock == [][C4_Step]_vars

C4_Witness ==
  /\ resp.op = "cancelOrder" /\ resp.status = 200
  /\ undo.orderId = req.orderId
  /\ undo.cancelled
  /\ \E p \in ProductIds : QuantityOf(orders[req.orderId[2]].orderItems, p) > 0

\* C5: whenever an order's status changes to CANCELLED (by cancelOrder or by
\* processRefund), the stock of each product of the order grows by the
\* quantity of its items in the same operation.
C5_CancelledRestoresStock ==
  [][\A k \in 1..Len(orders) :
       (orders[k].status # OrderStatus.CANCELLED /\ orders'[k].status = OrderStatus.CANCELLED)
       => \A p \in ProductIds :
            products'[p].stockQuantity =
              products[p].stockQuantity + QuantityOf(orders[k].orderItems, p)]_vars

\* C6: a createOrder request with an item of quantity <= 0 is rejected.
C6_NonPositiveQuantityRejected ==
  (resp.op = "createOrder" /\ \E i \in 1..Len(req.items) : req.items[i].quantity <= 0)
  => resp.status \in {400, 404}

C7_Step ==
  (resp'.op = "createOrder" /\ Len(orders') > Len(orders)) =>
    LET order == orders'[Len(orders')] IN
    /\ Len(order.orderItems) = Len(req'.items)
    /\ \A i \in 1..Len(req'.items) :
         LET item == order.orderItems[i] IN
         /\ item.productId = req'.items[i].productId
         /\ item.quantity = req'.items[i].quantity
         /\ item.unitPrice = products[item.productId].price
         /\ item.totalPrice = item.unitPrice * item.quantity
    /\ order.totalAmount = SumTotalPrice(order.orderItems)

\* C7: in every order createOrder persists there is one order item per cart
\* line, with the line's product and quantity, the product's price as
\* unitPrice and unitPrice x quantity as totalPrice, and the order's
\* totalAmount is the sum of the items' totalPrice.
C7_Totals == [][C7_Step]_vars

C7_Witness ==
  /\ resp.op = "createOrder" /\ resp.status = 201
  /\ Len(orders[1].orderItems) = 2
  /\ orders[1].orderItems[1].quantity >= 2
  /\ orders[1].orderItems[2].quantity >= 1
  /\ orders[1].orderItems[1].unitPrice # orders[1].orderItems[2].unitPrice

\* C8: the by-id endpoints find a record of the caller: POST /orders/:id/cancel,
\* GET /orders/:id, GET /orders/:id/track and DELETE /prescriptions/:id never
\* answer 404 for an existing order or prescription whose userId is the
\* authenticated caller.
C8_OwnRecordFound ==
  /\ (/\ resp.op \in {"POST /orders/:id/cancel", "GET /orders/:id", "GET /orders/:id/track"}
      /\ req.caller \in UserIds
      /\ \E k \in 1..Len(orders) : orders[k].id = req.id /\ orders[k].userId = req.caller)
     => resp.status # 404
  /\ (/\ resp.op = "DELETE /prescriptions/:id"
      /\ req.caller \in UserIds
      /\ prescriptions[req.id].status # "none"
      /\ prescriptions[req.id].userId = req.caller)
     => resp.status # 404


(***************************************************************************)
(* Properties of the middleware and of the accounts.                       *)
(***************************************************************************)
\* the header carries a Bearer token signed with the server's secret and in date
ValidBearer(authorization) ==
  /\ authorization # Null
  /\ authorization.prefix = "Bearer "
  /\ authorization.rest # Empty
  /\ authorization.rest.signedWith = JwtSecret
  /\ ~authorization.rest.expired

RoleIn(authorization, roles) ==
  /\ "role" \in DOMAIN authorization.rest.payload
  /\ authorization.rest.payload.role \in roles

\* the role each guarded route is meant for
Admitted ==
  [admin |-> {"admin"}, orders |-> {"user"}, prescriptions |-> {"user"},
   payments |-> {"user"}, users |-> {"user"}, createProduct |-> {"pharmacy"},
   updateProduct |-> {"pharmacy"}, deleteProduct |-> {"pharmacy"}]

\* C9: a request to a route behind authenticate and authorize(roles) runs
\* the handler only with a Bearer token that verifies and whose role is one
\* of roles; without a valid token the answer is 401, with a valid token of
\* another role it is 403, and the handler does not run.  /admin admits only
\* ADMIN, /orders, /prescriptions, /payments and /users only USER, product
\* create, update and delete only PHARMACY.
C9_RoleGuard ==
  (resp.op = "request" /\ req.route \in DOMAIN Admitted) =>
    LET authorization == req.authorization
        roles == Admitted[req.route]
    IN
    /\ resp.ran <=> (ValidBearer(authorization) /\ RoleIn(authorization, roles))
    /\ ~ValidBearer(authorization) => resp.status = 401
    /\ (ValidBearer(authorization) /\ ~RoleIn(authorization, roles)) => resp.status = 403

C9_Witness ==
  /\ resp.op = "request" /\ resp.status = 403 /\ ~resp.ran
  /\ req.route = "admin"
  /\ ValidBearer(req.authorization)
  /\ RoleIn(req.authorization, {"user"})

NoPassword(data) ==
  /\ DOMAIN data = {"token", "user"}
  /\ DOMAIN data.user \subseteq {"id", "firstName", "lastName", "email", "role",
                                 "isEmailVerified"}
  /\ DOMAIN data.token.payload \subseteq {"userId", "email", "role", "iss", "aud"}

C10_Step ==
  /\ (resp'.op = "registerUser" /\ resp'.status = 201) => NoPassword(resp'.data)
  /\ req'.op = "login" =>
       \A r \in registered :
         (r.email = req'.email /\ r.password = req'.password /\ users[r.id[2]].isActive)
         => /\ resp'.status = 200
            /\ resp'.data.user.id = r.id
            /\ resp'.data.user.email = r.email
            /\ resp'.data.token.signedWith = JwtSecret
            /\ ~resp'.data.token.expired
            /\ resp'.data.token.payload.userId = r.id
            /\ resp'.data.token.payload.email = r.email
            /\ NoPassword(resp'.data)

EmailTaken(email) == \E k \in 1..Len(users) : users[k].email = email

C11_Step ==
  /\ (req'.op = "registerUser" /\ EmailTaken(req'.email)) =>
       /\ resp'.status = 400
       /\ resp'.message = "User with this email already exists"
       /\ users' = users
  /\ \A i, j \in 1..Len(users') : users'[i].email = users'[j].email => i = j

\* C11: registerUser with an email that already belongs to a user fails
\* with 400 (already exists) and creates no account, so after any sequence
\* of registerUser calls at most one user account exists per email.
C11_OneAccountPerEmail == [][C11_Step]_vars

C11_Witness ==
  /\ resp.op = "registerUser" /\ resp.status = 400
  /\ resp.message = "User with this email already exists"
  /\ EmailTaken(req.email)
  /\ Len(users) = 2

\* C12: after registerPharmacy has succeeded for (email, password), the
\* pharmacy login with that email and password succeeds and returns a token
\* whose role is PHARMACY and whose userId is the pharmacy's id.
C12_PharmacyCanLogIn ==
  [][(req'.op = "login" /\ req'.role = UserRole.PHARMACY) =>
       \A k \in 1..Len(pharmacies) :
         (/\ pharmacies[k].email = req'.email
          /\ pharmacies[k].password = hashPassword(req'.password))
         => /\ resp'.status = 200
            /\ "role" \in DOMAIN resp'.data.token.payload
            /\ resp'.data.token.payload.role = UserRole.PHARMACY
            /\ resp'.data.token.payload.userId = pharmacies[k].id]_vars

WrongPassword(email, password) ==
  \E k \in 1..Len(users) :
    users[k].email = email /\ users[k].password # hashPassword(password)

C13_Step ==
  req'.op = "login" =>
    IF req'.email = Undefined \/ req'.password = ""
    THEN resp'.status = 400
    ELSE (~EmailTaken(req'.email) \/ WrongPassword(req'.email, req'.password)) =>
           /\ resp'.status = 401
           /\ resp'.message = "Invalid credentials"
           /\ ~Has(resp', "data")

\* C13: a login with an unknown email and a login with a registered email but
\* a wrong password both fail with 401 and the message 'Invalid credentials'
\* and issue no token; a login with the email or the password missing fails
\* with 400.
C13_UniformLoginFailure == [][C13_Step]_vars

C13_Witness ==
  /\ resp.op = "login" /\ resp.status = 401 /\ resp.message = "Invalid credentials"
  /\ req.op = "login" /\ req.email # Undefined
  /\ WrongPassword(req.email, req.password)

C14_Step ==
  req'.op = "registerUser" =>
    /\ (req'.password = "" \/ Len(req'.password) < 6) =>
         resp'.status = 400 /\ users' = users
    /\ Len(req'.password) = 6 =>
         ~(/\ resp'.status = 400
           /\ resp'.message = "Password must be at least 6 characters long")

\* C14: registerUser with a password shorter than 6 characters, or with no
\* password, fails with 400 and creates no account whatever the other fields
\* are; a password of exactly 6 characters is not rejected by this check.
C14_ShortPasswordRejected == [][C14_Step]_vars

C14_Witness ==
  /\ resp.op = "registerUser" /\ resp.status = 400
  /\ resp.message = "Password must be at least 6 characters long"
  /\ req.op = "registerUser" /\ Len(req.password) = 5

\* the credentials of the request are those of a deactivated account
Deactivated(email, password) ==
  \E k \in 1..Len(users) :
    /\ users[k].email = email /\ users[k].password = hashPassword(password)
    /\ ~users[k].isActive

C15_Step ==
  /\ (req'.op = "login" /\ req'.email # Undefined
         /\ Deactivated(req'.email, req'.password)) =>
       resp'.status = 401 /\ ~Has(resp', "data")
  /\ \A k \in 1..Len(users) :
       /\ (~users[k].isActive /\ users'[k].isActive) =>
            req'.op = "toggleUserStatus" /\ req'.userId = users[k].id
       /\ (req'.op = "deactivateAccount" /\ req'.userId = users[k].id) =>
            ~users'[k].isActive
       /\ (req'.op = "toggleUserStatus" /\ req'.userId = users[k].id) =>
            /\ users'[k].isActive = ~users[k].isActive
            /\ resp'.data.isActive = users'[k].isActive
            /\ Toggled(users'[k]) = users[k]

\* C15: once deactivateAccount or toggleUserStatus has set isActive to false,
\* a login for that account with the correct credentials fails with 401 and
\* issues no token, and only toggleUserStatus sets isActive back to true;
\* toggleUserStatus negates isActive, so applying it twice restores the row.
C15_DeactivatedCannotLogIn == [][C15_Step]_vars

C15_Witness ==
  /\ resp.op = "login" /\ resp.status = 401
  /\ resp.message = "Account has been deactivated"
  /\ req.op = "login" /\ Deactivated(req.email, req.password)

C16_Step ==
  \A id \in PrescriptionIds :
    LET before == prescriptions[id]
        after == prescriptions'[id]
    IN
    /\ (before.status = "none" /\ after.status # "none") =>
         after.status = PrescriptionStatus.PENDING
    /\ (before.status # "none" /\ after.status # "none" /\ after.status # before.status) =>
         /\ before.status = PrescriptionStatus.PENDING
         /\ after.status \in {PrescriptionStatus.APPROVED, PrescriptionStatus.REJECTED}
         /\ req'.op = "reviewPrescription"
    /\ (req'.op = "reviewPrescription" /\ req'.prescriptionId = id) =>
         /\ (/\ before.status = PrescriptionStatus.PENDING
             /\ req'.status \in {PrescriptionStatus.APPROVED, PrescriptionStatus.REJECTED})
            => resp'.status = 200 /\ after.status = req'.status
         /\ (/\ before.status \in {PrescriptionStatus.APPROVED, PrescriptionStatus.REJECTED}
             /\ req'.status \in {PrescriptionStatus.APPROVED, PrescriptionStatus.REJECTED})
            => resp'.status = 400 /\ after = before
         /\ req'.status \notin {PrescriptionStatus.APPROVED, PrescriptionStatus.REJECTED}
            => resp'.status = 400 /\ prescriptions' = prescriptions

\* C16: a prescription's status changes at most once: an upload starts it
\* PENDING, reviewPrescription moves a PENDING prescription to APPROVED or
\* REJECTED, a later review fails with 400 and leaves status, adminNotes,
\* approvedBy and approvedAt as they were, and a review with any other status
\* fails with 400 and changes nothing.
C16_ReviewedOnce == [][C16_Step]_vars

C16_Witness ==
  /\ resp.op = "reviewPrescription" /\ resp.status = 400
  /\ resp.message = "Prescription has already been reviewed"
  /\ \E id \in PrescriptionIds :
       /\ req.prescriptionId = id
       /\ prescriptions[id].status = PrescriptionStatus.APPROVED
       /\ req.status = PrescriptionStatus.REJECTED
       /\ prescriptions[id].approvedAt = 1

C17_Step ==
  \A id \in PrescriptionIds :
    LET before == prescriptions[id]
        after == prescriptions'[id]
    IN
    /\ (before # NoRow /\ after = NoRow) =>
         /\ req'.op = "deletePrescription" /\ req'.prescriptionId = id
         /\ before.userId = req'.userId
         /\ before.status = PrescriptionStatus.PENDING
    /\ (req'.op = "deletePrescription" /\ req'.prescriptionId = id /\ before # NoRow) =>
         /\ (/\ before.userId = req'.userId
             /\ before.status \in {PrescriptionStatus.APPROVED, PrescriptionStatus.REJECTED})
            => resp'.status = 400 /\ after = before
         /\ before.userId # req'.userId => resp'.status = 404 /\ after = before

C18_Step ==
  /\ \A id \in DOMAIN products' \ DOMAIN products :
       /\ req'.op = "createProduct"
       /\ products'[id].status = ProductStatus.PENDING_APPROVAL
  /\ \A id \in DOMAIN products :
       /\ (req'.op \in {"approveProduct", "rejectProduct"} /\ req'.productId = id) =>
            IF products[id].status = ProductStatus.PENDING_APPROVAL
            THEN /\ resp'.status = 200
                 /\ products'[id].status = IF req'.op = "approveProduct"
                                            THEN ProductStatus.ACTIVE
                                            ELSE ProductStatus.INACTIVE
            ELSE resp'.status = 400 /\ products'[id] = products[id]
       /\ (/\ products[id].status # ProductStatus.ACTIVE
           /\ products'[id].status = ProductStatus.ACTIVE) =>
            req'.op = "approveProduct" /\ req'.productId = id
  /\ req'.op = "getProducts" =>
       resp'.products = {id \in DOMAIN products : products[id].status = ProductStatus.ACTIVE}

\* C18: a product created by createProduct has status PENDING_APPROVAL;
\* approveProduct and rejectProduct succeed only on a PENDING_APPROVAL
\* product, setting ACTIVE and INACTIVE, and otherwise fail with 400 leaving
\* it unchanged; getProducts returns exactly the ACTIVE products, and only
\* approveProduct makes a product ACTIVE.
C18_ApprovalWorkflow == [][C18_Step]_vars

C18_Witness ==
  /\ resp.op = "getProducts"
  /\ \E id \in DOMAIN products \ ProductIds :
       /\ products[id].status = ProductStatus.PENDING_APPROVAL
       /\ id \notin resp.products
  /\ resp.products # {}

\* the request is a payment by the owner of the PENDING order k with the
\* order's total, a supported method and complete details, and the gateway
\* completes it
PayableBy(k, r) ==
  /\ r.op = "POST /payments/process"
  /\ r.body.orderId = orders[k].id /\ r.caller = orders[k].userId
  /\ orders[k].status = OrderStatus.PENDING
  /\ r.body.amount = orders[k].totalAmount
  /\ r.body.paymentMethod \in PaymentMethods /\ r.body.cardDetails = "complete"
  /\ GatewayResult(r.body.paymentMethod, r.body.cardDetails, r.approved) = "completed"

\* C19: POST /payments/process by the owner of a PENDING order, with the
\* order's totalAmount, a supported payment method and complete details, and
\* a gateway that completes the payment, sets the order to APPROVED and
\* answers with success.
C19_HttpPaymentCompletes ==
  [][\A k \in 1..Len(orders) :
       PayableBy(k, req') =>
         resp'.status = 200 /\ orders'[k].status = OrderStatus.APPROVED]_vars

\* the userId, email and role of claims are those of the payload p
SamePayload(claims, p) ==
  /\ \A fld \in {"userId", "email", "role"} :
       /\ Has(claims, fld) <=> Has(p, fld)
       /\ Has(p, fld) => claims[fld] = p[fld]

C20_Step ==
  /\ (req'.op = "generateToken" /\ req'.secret = "") =>
       resp'.result = Thrown("JWT_SECRET is not defined")
  /\ req'.op = "verifyToken" =>
       /\ req'.secret = "" => resp'.result = Thrown("JWT_SECRET is not defined")
       /\ (req'.secret # "" /\ req'.token.signedWith # req'.secret) =>
            resp'.result = Thrown("Invalid token")
       /\ \A p \in Payloads :
            (req'.secret # "" /\ req'.token = generateToken(p, req'.secret)) =>
              SamePayload(resp'.result, p)
  /\ req'.op = "authenticate" =>
       \A p \in Payloads :
         req'.authorization = Bearer(generateToken(p, JwtSecret)) =>
           resp'.result.status = 0 /\ resp'.result.user = p

\* C20: verifyToken(generateToken(p)) returns the userId, email and role of
\* p, and authenticate sets req.user to exactly these; a token that was not
\* signed with the current secret makes verifyToken throw 'Invalid token';
\* generateToken and verifyToken throw 'JWT_SECRET is not defined' when the
\* secret is unset.
C20_TokenRoundTrip == [][C20_Step]_vars

C20_Witness ==
  /\ req.op = "authenticate" /\ resp.op = "authenticate"
  /\ resp.result.status = 0
  /\ Has(resp.result.user, "role") /\ resp.result.user.role = UserRole.ADMIN
  /\ req.authorization.rest.signedWith = JwtSecret

C21_Step ==
  req'.op = "extractTokenFromHeader" =>
    LET authHeader == req'.authHeader IN
    IF authHeader = Null \/ authHeader = EmptyHeader
    THEN resp'.result = Null
    ELSE IF authHeader.prefix = "Bearer "
    THEN resp'.result = authHeader.rest
    ELSE resp'.result = Null

\* C21: extractTokenFromHeader returns null when the header is undefined,
\* empty or does not start with the 7 characters 'Bearer ', and otherwise
\* returns the header without these 7 characters.
C21_ExtractToken == [][C21_Step]_vars

C21_Witness ==
  /\ req.op = "extractTokenFromHeader" /\ req.authHeader # Null
  /\ req.authHeader.prefix = "bearer " /\ req.authHeader.rest # Empty
  /\ resp.result = Null

(***************************************************************************)
(* C22: overlapping createOrder calls lose no stock update: each order     *)
(* that commits takes its quantity off the stock committed at that moment, *)
(* and that quantity is never more than that stock.                        *)
(***************************************************************************)
C22_Step ==
  \A t \in Tx :
    (txns[t].op = "createOrder" /\ commit(t) /\ resp'.status = 201)
      => /\ txns[t].quantity <= products[txns[t].productId].stockQuantity
         /\ products'[txns[t].productId].stockQuantity =
              products[txns[t].productId].stockQuantity - txns[t].quantity

C22_NoLostStockUpdate == [][C22_Step]_vars

(***************************************************************************)
(* C23: the stock of an order is restored at most once: cancelOrder on an  *)
(* order that is not PENDING fails with 400 and changes no stock, and a    *)
(* cancelOrder that ends when an overlapping cancelOrder has already       *)
(* cancelled the order adds nothing more to the stock.                     *)
(***************************************************************************)
C23_Step ==
  /\ \A t \in Tx, userId \in UserIds, orderId \in OrderIds \cup {<<"order", 2>>} :
       ( /\ FindOrder(orderId, userId) # 0
         /\ orders[FindOrder(orderId, userId)].status # OrderStatus.PENDING
         /\ beginCancelOrder(t, userId, orderId) )
         => resp'.status = 400 /\ products' = products /\ txns' = txns
  /\ \A t \in Tx :
       ( /\ txns[t].op = "cancelOrder"
         /\ commit(t)
         /\ orders[txns[t].k].status = OrderStatus.CANCELLED )
         => products' = products

C23_StockRestoredOnce == [][C23_Step]_vars

(***************************************************************************)
(* C24: CANCELLED is terminal: whatever cancelOrder, processPayment and    *)
(* processRefund calls run and however they overlap, an order that is      *)
(* CANCELLED stays CANCELLED; a processPayment that read the order as      *)
(* PENDING does not make it APPROVED after a cancelOrder has committed.    *)
(***************************************************************************)
C24_Step ==
  \A k \in 1..Len(orders) :
    orders[k].status = OrderStatus.CANCELLED
      => orders'[k].status = OrderStatus.CANCELLED

C24_CancelledIsTerminal == [][C24_Step]_vars

(***************************************************************************)
(* C25: processPayment changes the status of an order only from PENDING to *)
(* APPROVED, and only for the caller's order named, when the amount is the *)
(* order's totalAmount, the details are complete for the method and the    *)
(* gateway reports a completed payment; in every other case (order not     *)
(* PENDING, other amount, missing details, declined, pending bank          *)
(* transfer) every order has the status it had.                            *)
(***************************************************************************)
C25_Step ==
  \A userId \in UserIds, orderId \in OrderIds, payment \in PaymentInputs :
    ( /\ orderId[2] <= Len(orders)
      /\ processPayment(userId, orderId, orders[orderId[2]].totalAmount + payment.over,
                        payment.paymentMethod, payment.paymentDetails, payment.approved) )
      => /\ Len(orders') = Len(orders)
         /\ \A k \in 1..Len(orders) :
              orders'[k].status # orders[k].status
                => /\ orders[k].id = orderId /\ orders[k].userId = userId
                   /\ orders[k].status = OrderStatus.PENDING
                   /\ orders'[k].status = OrderStatus.APPROVED
                   /\ payment.over = 0
                   /\ payment.paymentDetails = "complete"
                   /\ payment.paymentMethod \in {"card", "mobile_money"}
                   /\ payment.approved
                   /\ resp'.status = 200 /\ resp'.message = "completed"

C25_PaymentStatusChange == [][C25_Step]_vars

\* a payment has completed and its order is APPROVED
C25_Witness ==
  /\ req.op = "processPayment" /\ resp.status = 200 /\ resp.message = "completed"
  /\ \E k \in 1..Len(orders) :
       orders[k].id = req.orderId /\ orders[k].status = OrderStatus.APPROVED

(***************************************************************************)
(* C26: the order operations of the services are confined to the caller's  *)
(* orders: cancelOrder, processPayment, processRefund, getOrderById,       *)
(* trackOrder and getPaymentStatus called for user U answer with, or       *)
(* change, an order only if it is U's; called on the order of another      *)
(* user they fail with 404 and leave every order and every stock as it was.*)
(***************************************************************************)
OrderOps ==
  {"cancelOrder", "processPayment", "processRefund", "getOrderById", "trackOrder",
   "getPaymentStatus"}

C26_Step ==
  req'.op \in OrderOps
    => \A k \in 1..Len(orders) :
         /\ (orders[k].id = req'.orderId /\ orders[k].userId # req'.userId)
              => resp'.status = 404 /\ orders' = orders /\ products' = products
         /\ (orders[k].id = req'.orderId /\ resp'.status = 200)
              => orders[k].userId = req'.userId
         /\ orders'[k] # orders[k] => orders[k].userId = req'.userId

C26_OwnOrdersOnly == [][C26_Step]_vars

\* a user called an operation on the order of another user
C26_Witness ==
  /\ req.op \in OrderOps /\ resp.status = 404
  /\ \E k \in 1..Len(orders) : orders[k].id = req.orderId /\ orders[k].userId # req.userId

(***************************************************************************)
(* C27: createOrder succeeds only if every product ordered is ACTIVE: a    *)
(* product that is PENDING_APPROVAL or INACTIVE is in no order that is     *)
(* persisted, and no order takes from its stock.                           *)
(***************************************************************************)
C27_Step ==
  req'.op = "createOrder"
    => /\ resp'.status = 201
           => \A i \in 1..Len(orders'[Len(orders')].orderItems) :
                products[orders'[Len(orders')].orderItems[i].productId].status
                  = ProductStatus.ACTIVE
       /\ \A productId \in DOMAIN products :
            products'[productId].stockQuantity # products[productId].stockQuantity
              => products[productId].status = ProductStatus.ACTIVE

C27_OnlyActiveProductsOrdered == [][C27_Step]_vars

(***************************************************************************)
(* C28: once its pharmacy has deleted a product (deleteProduct answered    *)
(* and the product is INACTIVE), the product is never ACTIVE, and so never *)
(* in the public listing, again, whatever updateProduct, approveProduct    *)
(* and rejectProduct calls follow.                                         *)
(***************************************************************************)
C28_DeletedStaysUnlisted ==
  \A productId \in deleted : ~Listed(products[productId])

(***************************************************************************)
(* C29: an updateProduct of the owning pharmacy that goes through sets the *)
(* status PENDING_APPROVAL exactly when it supplies a name, a description  *)
(* (a text that is not empty) or a requiresPrescription value; one that    *)
(* supplies only price, stockQuantity, category or imageUrl leaves the     *)
(* status, so an ACTIVE product stays listed; an update that fails         *)
(* changes nothing; updateProduct and deleteProduct on the product of      *)
(* another pharmacy answer 404 and change nothing.                         *)
(***************************************************************************)
Significant(updateData) ==
  \/ \E fld \in {"name", "description"} : fld \in DOMAIN updateData /\ updateData[fld] # ""
  \/ "requiresPrescription" \in DOMAIN updateData

NotOwner(pharmacyId, productId) ==
  productId \notin DOMAIN products \/ products[productId].pharmacyId # pharmacyId

C29_Step ==
  \A pharmacyId \in PharmacyIds, productId \in ProductIds :
    /\ \A updateData \in StatusUpdateInputs :
         updateProduct(pharmacyId, productId, updateData)
           => IF NotOwner(pharmacyId, productId)
              THEN resp'.status = 404 /\ products' = products
              ELSE IF resp'.status # 200 THEN products' = products
              ELSE /\ products'[productId].status =
                        IF Significant(updateData) THEN ProductStatus.PENDING_APPROVAL
                        ELSE products[productId].status
                   /\ \A other \in DOMAIN products \ {productId} :
                        products'[other] = products[other]
    /\ (deleteProduct(pharmacyId, productId) /\ NotOwner(pharmacyId, productId))
         => resp'.status = 404 /\ products' = products

C30_Step ==
  /\ \A userId \in UserIds, passwordData \in PasswordInputs :
       changePassword(userId, passwordData)
         => LET k == FindUser(userId) IN
            IF /\ k # 0
               /\ passwordData.currentPassword # ""
               /\ users[k].password = hashPassword(passwordData.currentPassword)
               /\ Len(passwordData.newPassword) >= 6
            THEN /\ resp'.status = 200
                 /\ users' = [users EXCEPT
                                ![k].password = hashPassword(passwordData.newPassword)]
            ELSE resp'.status \in {400, 404} /\ users' = users
  /\ \A credentials \in LoginInputs, k \in 1..Len(users) :
       ( /\ login(credentials)
         /\ credentials.password # ""
         /\ users[k].email = credentials.email /\ users[k].isActive )
         => IF users[k].password = hashPassword(credentials.password)
            THEN resp'.status = 200
            ELSE resp'.status = 401

C30_ChangePassword == [][C30_Step]_vars

\* a user has just replaced the password user123 by secret
C30_Witness ==
  /\ req.op = "changePassword" /\ resp.status = 200
  /\ \E k \in 1..Len(users) :
       users[k].id = req.userId /\ users[k].password = hashPassword("secret")

====
